---- MODULE Spec2Model ----
(***************************************************************************)
(* Model of the coin-trader core: PortfolioManager (domain/portfolio.py),  *)
(* RiskManager (domain/risk.py) and ExecutionEngine (execution/engine.py), *)
(* wired as PaperTrader does (execution/paper.py).                         *)
(*                                                                         *)
(* Money is in KRW and every Decimal value of the code is an integer here: *)
(* the configurations below (fee_rate = 1.0 %, buy_amount = 3,800,000 and  *)
(* the prices 19, 20, 22) are chosen so that every division the code makes *)
(* is exact.  Div yields a non-number when a division would not be exact,  *)
(* so an inexact case cannot pass unnoticed.                               *)
(***************************************************************************)
EXTENDS Integers, Sequences, FiniteSets, TLC

\* ---------------------------------------------------------------- bounds
MaxOps == 3          \* number of process_tick and direct PortfolioManager calls made
MaxDay == 1          \* the UTC date runs over 0..MaxDay
NumStrategies == 2   \* length of the engine's strategy list
MaxHistory == 4      \* longest price_history / volume_history of a market view
MaxHandlers == 2     \* handlers registered on one channel of the event bus
MaxRateCalls == 4    \* check_rate_limit calls begun
MaxTicks == 2        \* on_tick callbacks of one UpbitWebSocket

\* ------------------------------------------------------- inputs and config
TickerOrder == <<"T1", "T2", "T3">>
Tickers == {TickerOrder[i] : i \in 1..Len(TickerOrder)}
Prices == {19, 20, 22}
TickTickers == Tickers \cup {""}         \* "" : ticker missing or empty
TickPrices == Prices \cup {0}            \* 0  : price missing or zero

\* The configurations the trader is built with (AppConfig): trading.initial_krw,
\* trading.buy_amount, risk.max_positions and risk.fee_rate (a percentage).
Configs ==
    {[initial_krw |-> b, buy_amount |-> 3800000, max_positions |-> 2, fee_rate |-> 1] :
        b \in {5000000, 12000000}}

\* risk.* left at the defaults of RiskConfig
stop_loss_pct == -5
take_profit_pct == 10
trailing_stop_pct == 3
max_daily_loss_pct == -3
max_drawdown_pct == -15
HardcodedInitial == 1000000   \* `initial = Decimal("1000000")` in check_buy
PercentDen == 100             \* `self.fee_rate = fee_rate / 100`

\* ------------------------------------------------------------- arithmetic
Abs(x) == IF x < 0 THEN -x ELSE x

\* Decimal division a / b (b # 0), defined where it is exact.
Div(a, b) ==
    IF Abs(a) % Abs(b) = 0
    THEN (IF (a < 0) # (b < 0) THEN -(Abs(a) \div Abs(b)) ELSE Abs(a) \div Abs(b))
    ELSE "inexact"

\* float(num / den * 100) <= pct and >= pct, for den # 0
PctLE(num, den, pct) ==
    IF den > 0 THEN num * PercentDen <= pct * den ELSE num * PercentDen >= pct * den

\* float(num / den * 100) > pct: a threshold that is not inclusive
PctGE_Strict(num, den, pct) ==
    IF den > 0 THEN num * PercentDen > pct * den ELSE num * PercentDen < pct * den

PctGE(num, den, pct) ==
    IF den > 0 THEN num * PercentDen >= pct * den ELSE num * PercentDen <= pct * den

\* ------------------------------------------------------------------ state
VARIABLES
    today,          \* datetime.utcnow().date()
    cfg,            \* the configuration the trader was built with
    krw_balance,    \* Portfolio.krw_balance
    positions,      \* Portfolio.positions : ticker -> Position (ABSENT = no key)
    total_trades,   \* Portfolio.total_trades
    winning_trades, \* Portfolio.winning_trades
    total_profit,   \* Portfolio.total_profit
    daily_pnl,      \* RiskManager.daily_pnl
    trade_log,      \* ExecutionEngine.trade_log
    pc,             \* position of the process_tick call: idle, loop, ret, raised
    tick,           \* the tick being processed
    idx,            \* index of the strategy evaluated next
    trades,         \* process_tick's local list `trades`
    nops,           \* number of calls made so far
    lossHitDay,     \* history: the last date on which the daily loss limit was hit, -1 if
                    \* never: as check_buy measures it, and on the configured balance
    lastLog,        \* what the last step did (the structlog line, the returned value)
    other,          \* the process_tick call that is not running: its pc, tick, idx, trades
    bus,            \* the EventBus: its handlers and what the last emit did
    market_data,    \* the dict built for the strategy whose evaluate is awaited
    rate,           \* the Redis key rate:<key> and the check_rate_limit calls in flight
    ws              \* the UpbitWebSocket: _running, _ws and where start() is

vars == <<today, cfg, krw_balance, positions, total_trades, winning_trades,
          total_profit, daily_pnl, trade_log, pc, tick, idx, trades, nops, lossHitDay, lastLog,
          other, bus, market_data, rate, ws>>

portfolioVars == <<krw_balance, positions, total_trades, winning_trades, total_profit>>

\* the callers of check_rate_limit
RateCallers == {"a", "b"}

\* Redis without the key rate:<key> (count 0), no call in flight, for calls
\* made with max_count = m.  allowed counts the calls that returned True
\* since the key last expired, calls the calls begun.
NoRate(m) ==
    [max_count |-> m, count |-> 0, allowed |-> 0, calls |-> 0,
     callers |-> [c \in RateCallers |-> [pc |-> "idle", current |-> 0]]]

\* UpbitWebSocket(tickers, on_tick): start() not called yet.  socket is
\* self._ws (None, or a connection that is open or closed); pc is the await
\* start() is suspended at ("returned" and "raised" when it ended) and exc
\* the exception that left its async with;
\* stopped says stop() was called and stop_pc where stop() is; ticks counts
\* the on_tick callbacks.
NoWebSocket(on_tick) ==
    [on_tick |-> on_tick, running |-> FALSE, socket |-> "None", pc |-> "new",
     exc |-> "", stopped |-> FALSE, stop_pc |-> "idle", ticks |-> 0]

\* no strategy is being evaluated
NoMarketData == [current_price |-> 0, has_position |-> FALSE, entry_price |-> 0]

\* float(Decimal) : exact for the integers of the model, all below 2^53
FloatOf(x) == x

\* _build_market_data looking the ticker up among all positions
build_market_data_AnyPosition(pos, tk) ==
    [current_price |-> tk.price,
     has_position |-> pos[tk.ticker].status # "ABSENT",
     entry_price |-> IF pos[tk.ticker].status # "ABSENT"
                     THEN FloatOf(pos[tk.ticker].entry_price) ELSE 0]

\* _build_market_data(ticker, tick): the keys that come from the portfolio
\* and the price; the other keys are copied from the tick
build_market_data(pos, tk) ==
    [current_price |-> tk.price,
     has_position |-> pos[tk.ticker].status = "OPEN",
     entry_price |-> IF pos[tk.ticker].status = "OPEN"
                     THEN FloatOf(pos[tk.ticker].entry_price) ELSE 0]

\* the argument of the next `await strategy.evaluate(...)`, built before the
\* call suspends; nothing when the loop is over
NextMarketData(nextpc, pos, tk) ==
    IF nextpc = "loop" THEN build_market_data(pos, tk) ELSE NoMarketData

\* a process_tick call that has not started
NoCall ==
    [pc |-> "idle", tick |-> [ticker |-> "", price |-> 0], idx |-> 0, trades |-> <<>>,
     market_data |-> NoMarketData]

\* channel names of redis_bus
Channels == {"tick", "signal"}

\* EventBus(redis): no handler registered, nothing emitted.  connected says
\* whether the Redis client can deliver a publish.
\* the coroutines that call emit
Emitters == {"a", "b"}

\* an emit call that has not begun; i is the handler being awaited
NoEmit ==
    [pc |-> "idle", channel |-> "tick", price_type |-> "int", i |-> 0,
     called |-> <<>>, errors |-> <<>>, result |-> "none"]

NoBus(connected) ==
    [connected |-> connected, handlers |-> [c \in Channels |-> <<>>],
     emits |-> [e \in Emitters |-> NoEmit]]

\* profit_pct is float(profit / cost * 100): kept as the ratio num / den it is
\* the float of.  NoPct stands for a profit_pct that was never set.
NoPct == [num |-> 0, den |-> 1]

\* exit_time is the UTC date of the sell, NoTime when never set
NoTime == -1

NoPosition ==
    [status |-> "ABSENT", strategy_name |-> 0, entry_price |-> 0, quantity |-> 0,
     highest_price |-> 0, exit_price |-> 0, exit_time |-> NoTime, profit |-> 0,
     profit_pct |-> NoPct]

NoTrade == [side |-> "NONE"]

\* what a step did; trade is the value a direct execute_buy / execute_sell
\* call returned
Log(ev, reason) == [event |-> ev, reason |-> reason, trade |-> NoTrade]

\* -------------------------------------------------------- PortfolioManager
\* x * Decimal(str(self.fee_rate))
Fee(x) == Div(x * cfg.fee_rate, PercentDen)

get_open_positions(pos) == {t \in Tickers : pos[t].status = "OPEN"}

\* execute_buy: the trade it returns (NoTrade for None)
BuyTrade(bal, strategy, ticker, price, amount) ==
    IF bal < amount THEN NoTrade
    ELSE [side |-> "BUY", strategy_name |-> strategy, ticker |-> ticker, price |-> price,
          quantity |-> Div(amount - Fee(amount), price), total_krw |-> amount,
          fee |-> Fee(amount), reason |-> "signal", profit |-> "None",
          profit_pct |-> "None"]

\* execute_buy taking only the net amount from the balance
BuyBalance_Net(bal, amount) == IF bal < amount THEN bal ELSE bal - (amount - Fee(amount))

\* execute_buy without its funds check
BuyBalance_NoCheck(bal, amount) == bal - amount

\* execute_buy: the balance after the call
BuyBalance(bal, amount) == IF bal < amount THEN bal ELSE bal - amount

\* execute_buy creating the position whatever the balance
BuyPositions_NoCheck(pos, bal, strategy, ticker, price, amount) ==
    [pos EXCEPT ![ticker] =
        [status |-> "OPEN", strategy_name |-> strategy, entry_price |-> price,
         quantity |-> Div(amount - Fee(amount), price), highest_price |-> price,
         exit_price |-> 0, exit_time |-> NoTime, profit |-> 0,
         profit_pct |-> NoPct]]

\* execute_buy: the position map after the call
BuyPositions(pos, bal, strategy, ticker, price, amount) ==
    IF bal < amount THEN pos
    ELSE [pos EXCEPT ![ticker] =
            [status |-> "OPEN", strategy_name |-> strategy, entry_price |-> price,
             quantity |-> Div(amount - Fee(amount), price), highest_price |-> price,
             exit_price |-> 0, exit_time |-> NoTime, profit |-> 0,
             profit_pct |-> NoPct]]

\* execute_sell crediting the gross proceeds
SellNet_NoFee(p, price) == p.quantity * price

\* execute_sell: figures of the sale of position p at price
SellNet(p, price) == p.quantity * price - Fee(p.quantity * price)

\* the cost basis without the buy-side fee
SellCost_Raw(p) == p.quantity * p.entry_price

SellCost(p) ==
    LET raw_cost == p.quantity * p.entry_price
    IN  raw_cost + Div(raw_cost * cfg.fee_rate, PercentDen - cfg.fee_rate)

\* the profit measured against quantity * entry_price alone
SellProfit_OnRawCost(p, price) == SellNet(p, price) - p.quantity * p.entry_price

SellProfit(p, price) == SellNet(p, price) - SellCost(p)

\* profit_pct = float(profit / cost * 100) if cost > 0 else 0.0
SellProfitPct(p, price) ==
    IF SellCost(p) > 0 THEN [num |-> SellProfit(p, price) * 100, den |-> SellCost(p)]
    ELSE NoPct

\* execute_sell accepting a CLOSED position
CanSell_Closed(pos, ticker) == pos[ticker].status # "ABSENT"

CanSell(pos, ticker) == pos[ticker].status = "OPEN"

\* execute_sell: the trade it returns (NoTrade for None)
SellTrade(pos, strategy, ticker, price, reason) ==
    IF ~CanSell(pos, ticker) THEN NoTrade
    ELSE [side |-> "SELL", strategy_name |-> strategy, ticker |-> ticker, price |-> price,
          quantity |-> pos[ticker].quantity, total_krw |-> SellNet(pos[ticker], price),
          fee |-> Fee(pos[ticker].quantity * price), reason |-> reason,
          profit |-> SellProfit(pos[ticker], price),
          profit_pct |-> SellProfitPct(pos[ticker], price)]

\* execute_sell leaving the position as it was
SellPositions_StaysOpen(pos, ticker, price, now) == pos

\* execute_sell: the position map after the call at date now
SellPositions(pos, ticker, price, now) ==
    IF ~CanSell(pos, ticker) THEN pos
    ELSE [pos EXCEPT ![ticker].status = "CLOSED",
                     ![ticker].exit_price = price,
                     ![ticker].exit_time = now,
                     ![ticker].profit = SellProfit(pos[ticker], price),
                     ![ticker].profit_pct = SellProfitPct(pos[ticker], price)]

\* execute_sell counting every sell as a win
ApplySell_AlwaysWins(ticker, price) ==
    IF ~CanSell(positions, ticker)
    THEN UNCHANGED portfolioVars
    ELSE /\ krw_balance' = krw_balance + SellNet(positions[ticker], price)
         /\ total_trades' = total_trades + 1
         /\ total_profit' = total_profit + SellProfit(positions[ticker], price)
         /\ winning_trades' = winning_trades + 1
         /\ positions' = SellPositions(positions, ticker, price, today)

\* execute_sell that does not count the sell
ApplySell_NoCount(ticker, price) ==
    IF ~CanSell(positions, ticker)
    THEN UNCHANGED portfolioVars
    ELSE /\ krw_balance' = krw_balance + SellNet(positions[ticker], price)
         /\ total_trades' = total_trades
         /\ total_profit' = total_profit + SellProfit(positions[ticker], price)
         /\ winning_trades' = IF SellProfit(positions[ticker], price) > 0
                              THEN winning_trades + 1 ELSE winning_trades
         /\ positions' = SellPositions(positions, ticker, price, today)

\* execute_sell as a state change of the portfolio
ApplySell(ticker, price) ==
    IF ~CanSell(positions, ticker)
    THEN UNCHANGED portfolioVars
    ELSE /\ krw_balance' = krw_balance + SellNet(positions[ticker], price)
         /\ total_trades' = total_trades + 1
         /\ total_profit' = total_profit + SellProfit(positions[ticker], price)
         /\ winning_trades' = IF SellProfit(positions[ticker], price) > 0
                              THEN winning_trades + 1 ELSE winning_trades
         /\ positions' = SellPositions(positions, ticker, price, today)

\* execute_buy as a state change of the portfolio
ApplyBuy(strategy, ticker, price, amount) ==
    /\ krw_balance' = BuyBalance(krw_balance, amount)
    /\ positions' = BuyPositions(positions, krw_balance, strategy, ticker, price, amount)
    /\ UNCHANGED <<total_trades, winning_trades, total_profit>>

\* update_highest_price taking every price of an OPEN position as the new high
update_highest_price_Always(pos, ticker, price) ==
    IF ticker \in Tickers /\ pos[ticker].status = "OPEN"
    THEN [pos EXCEPT ![ticker].highest_price = price]
    ELSE pos

\* update_highest_price raising the high of every OPEN position below the price
update_highest_price_AllOpen(pos, ticker, price) ==
    [t \in Tickers |->
        IF pos[t].status = "OPEN" /\ price > pos[t].highest_price
        THEN [pos[t] EXCEPT !.highest_price = price]
        ELSE pos[t]]

\* update_highest_price leaving the high where it is
update_highest_price_Never(pos, ticker, price) == pos

\* update_highest_price
update_highest_price(pos, ticker, price) ==
    IF /\ ticker \in Tickers
       /\ pos[ticker].status = "OPEN"
       /\ (pos[ticker].highest_price = 0 \/ price > pos[ticker].highest_price)
    THEN [pos EXCEPT ![ticker].highest_price = price]
    ELSE pos

\* ------------------------------------------------------------- RiskManager
\* _reset_daily_if_needed that never resets
ResetDaily_Never(d, now) == d

\* _reset_daily_if_needed
ResetDaily(d, now) ==
    IF d.date # now THEN [date |-> now, realized_pnl |-> 0, trades_today |-> 0] ELSE d

\* record_trade_pnl
record_trade_pnl(d, now, pnl) ==
    [ResetDaily(d, now) EXCEPT !.realized_pnl = @ + pnl, !.trades_today = @ + 1]

\* the base of the daily-loss and drawdown percentages in check_buy
InitialOf(configured) == HardcodedInitial

DailyLossHit(d, initial) == d.realized_pnl * 100 <= max_daily_loss_pct * initial

DrawdownHit(ntrades, profit, initial) ==
    ntrades > 0 /\ profit * 100 <= max_drawdown_pct * initial

\* check_buy without the max-positions check
check_buy_NoMaxPositions(sigType, ticker, pos, bal, ntrades, profit, d, amount, configured) ==
    IF sigType # "BUY" THEN "Not a BUY signal"
    ELSE IF bal < amount THEN "Insufficient balance"
    ELSE IF DailyLossHit(d, InitialOf(configured)) THEN "Daily loss limit hit"
    ELSE IF DrawdownHit(ntrades, profit, InitialOf(configured)) THEN "Max drawdown hit"
    ELSE IF pos[ticker].status = "OPEN" THEN "Already have open position"
    ELSE ""

\* check_buy without the duplicate-position check
check_buy_NoDuplicate(sigType, ticker, pos, bal, ntrades, profit, d, amount, configured) ==
    IF sigType # "BUY" THEN "Not a BUY signal"
    ELSE IF Cardinality(get_open_positions(pos)) >= cfg.max_positions THEN "Max positions reached"
    ELSE IF bal < amount THEN "Insufficient balance"
    ELSE IF DailyLossHit(d, InitialOf(configured)) THEN "Daily loss limit hit"
    ELSE IF DrawdownHit(ntrades, profit, InitialOf(configured)) THEN "Max drawdown hit"
    ELSE ""

\* check_buy with the duplicate-position check moved before the daily-loss check
check_buy_DuplicateFirst(sigType, ticker, pos, bal, ntrades, profit, d, amount, configured) ==
    IF sigType # "BUY" THEN "Not a BUY signal"
    ELSE IF Cardinality(get_open_positions(pos)) >= cfg.max_positions THEN "Max positions reached"
    ELSE IF bal < amount THEN "Insufficient balance"
    ELSE IF pos[ticker].status = "OPEN" THEN "Already have open position"
    ELSE IF DailyLossHit(d, InitialOf(configured)) THEN "Daily loss limit hit"
    ELSE IF DrawdownHit(ntrades, profit, InitialOf(configured)) THEN "Max drawdown hit"
    ELSE ""

\* check_buy: the reason of the rejection, "" when allowed.  d is the daily
\* aggregate after _reset_daily_if_needed.
check_buy(sigType, ticker, pos, bal, ntrades, profit, d, amount, configured) ==
    IF sigType # "BUY" THEN "Not a BUY signal"
    ELSE IF Cardinality(get_open_positions(pos)) >= cfg.max_positions THEN "Max positions reached"
    ELSE IF bal < amount THEN "Insufficient balance"
    ELSE IF DailyLossHit(d, InitialOf(configured)) THEN "Daily loss limit hit"
    ELSE IF DrawdownHit(ntrades, profit, InitialOf(configured)) THEN "Max drawdown hit"
    ELSE IF pos[ticker].status = "OPEN" THEN "Already have open position"
    ELSE ""

\* check_sell without the test of the position's status
check_sell_NoOpenCheck(sigType, ticker, pos) ==
    IF sigType # "SELL" THEN "Not a SELL signal"
    ELSE IF pos[ticker].status = "ABSENT" THEN "No position"
    ELSE ""

\* check_sell: the reason of the rejection, "" when allowed
check_sell(sigType, ticker, pos) ==
    IF sigType # "SELL" THEN "Not a SELL signal"
    ELSE IF pos[ticker].status = "ABSENT" THEN "No position"
    ELSE IF pos[ticker].status # "OPEN" THEN "Position is not open"
    ELSE ""

check_stop_loss(p, price) ==
    /\ p.status = "OPEN"
    /\ PctLE(price - p.entry_price, p.entry_price, stop_loss_pct)

check_take_profit(p, price) ==
    /\ p.status = "OPEN"
    /\ PctGE(price - p.entry_price, p.entry_price, take_profit_pct)

check_trailing_stop(p, price) ==
    LET highest == IF p.highest_price = 0 THEN p.entry_price ELSE p.highest_price
    IN  /\ p.status = "OPEN"
        /\ ~(price > highest)
        /\ PctGE(highest - price, highest, trailing_stop_pct)

\* _check_risk_exits with the trailing stop checked first
RiskExitReason_TrailingFirst(pos, ticker, price) ==
    IF ticker \notin get_open_positions(pos) THEN ""
    ELSE IF check_trailing_stop(pos[ticker], price) THEN "Trailing stop"
    ELSE IF check_stop_loss(pos[ticker], price) THEN "Stop-loss triggered"
    ELSE IF check_take_profit(pos[ticker], price) THEN "Take-profit triggered"
    ELSE ""

\* _check_risk_exits: the reason of the exit that fires, "" when none does
RiskExitReason(pos, ticker, price) ==
    IF ticker \notin get_open_positions(pos) THEN ""
    ELSE IF check_stop_loss(pos[ticker], price) THEN "Stop-loss triggered"
    ELSE IF check_take_profit(pos[ticker], price) THEN "Take-profit triggered"
    ELSE IF check_trailing_stop(pos[ticker], price) THEN "Trailing stop"
    ELSE ""

\* ------------------------------------------------------------------- Init
Init ==
    /\ today = 0
    /\ cfg \in Configs
    /\ krw_balance = cfg.initial_krw
    /\ positions = [t \in Tickers |-> NoPosition]
    /\ total_trades = 0
    /\ winning_trades = 0
    /\ total_profit = 0
    /\ daily_pnl = [date |-> 0, realized_pnl |-> 0, trades_today |-> 0]
    /\ trade_log = <<>>
    /\ pc = "idle"
    /\ tick = [ticker |-> "", price |-> 0]
    /\ idx = 0
    /\ trades = <<>>
    /\ nops = 0
    /\ lossHitDay = [hardcoded |-> -1, configured |-> -1]
    /\ lastLog = Log("init", "")
    /\ other = NoCall
    /\ market_data = NoMarketData
    /\ rate = NoRate(2)
    /\ ws = NoWebSocket(TRUE)
    /\ bus = NoBus(TRUE)

Budget == nops < MaxOps

\* a trader built with fee_rate = 0 and a buy_amount every price divides
InitNoFee ==
    /\ today = 0
    /\ cfg \in {[initial_krw |-> 5000000, buy_amount |-> 4180000, max_positions |-> 2,
                  fee_rate |-> 0]}
    /\ krw_balance = cfg.initial_krw
    /\ positions = [t \in Tickers |-> NoPosition]
    /\ total_trades = 0
    /\ winning_trades = 0
    /\ total_profit = 0
    /\ daily_pnl = [date |-> 0, realized_pnl |-> 0, trades_today |-> 0]
    /\ trade_log = <<>>
    /\ pc = "idle"
    /\ tick = [ticker |-> "", price |-> 0]
    /\ idx = 0
    /\ trades = <<>>
    /\ nops = 0
    /\ lossHitDay = [hardcoded |-> -1, configured |-> -1]
    /\ lastLog = Log("init", "")
    /\ other = NoCall
    /\ market_data = NoMarketData
    /\ rate = NoRate(2)
    /\ ws = NoWebSocket(TRUE)
    /\ bus = NoBus(TRUE)

\* amounts passed to execute_buy when it is called directly
DirectAmounts == {cfg.buy_amount, 2 * cfg.buy_amount}

\* the daily loss limit of check_buy is hit for the current date
LossLimitHit(d, now) == d.date = now /\ DailyLossHit(d, InitialOf(cfg.initial_krw))

TrackLossHit ==
    lossHitDay' =
        [hardcoded |-> IF LossLimitHit(daily_pnl', today') THEN today'
                       ELSE lossHitDay.hardcoded,
         configured |-> IF daily_pnl'.date = today' /\ DailyLossHit(daily_pnl', cfg.initial_krw)
                        THEN today' ELSE lossHitDay.configured]

\* Tickers are interchangeable in the code, so of the tickers that never had
\* a position and are not the ticker of the suspended call only the first one
\* is used as input.
Rank(t) == CHOOSE i \in 1..Len(TickerOrder) : TickerOrder[i] = t

Usable(t) ==
    \/ positions[t].status # "ABSENT"
    \/ other.tick.ticker = t
    \/ \A u \in Tickers :
            (positions[u].status = "ABSENT" /\ other.tick.ticker # u) => Rank(t) <= Rank(u)

\* ------------------------------------------------ ExecutionEngine.process_tick
\* process_tick going on to the strategies after a risk exit
AfterExit_Continue == [pc |-> "loop", idx |-> 1]

\* where process_tick goes once a risk exit has produced a trade: `return trades`
AfterExit == [pc |-> "ret", idx |-> 0]

\* process_tick up to the first strategy evaluation: validation,
\* update_highest_price and _check_risk_exits.
ProcessTickStart(ticker, price) ==
    /\ pc = "idle"
    /\ Budget
    /\ (IF ticker = "" THEN TRUE ELSE Usable(ticker))
    /\ nops' = nops + 1
    /\ tick' = [ticker |-> ticker, price |-> price]
    /\ UNCHANGED <<today, cfg, daily_pnl, trade_log>>
    /\ IF ticker = "" \/ price = 0
       THEN /\ pc' = "ret"
            /\ trades' = <<>>
            /\ idx' = 0
            /\ lastLog' = Log("tick_rejected", "")
            /\ UNCHANGED portfolioVars
       ELSE LET raised == update_highest_price(positions, ticker, price)
                reason == RiskExitReason(raised, ticker, price)
            IN  IF reason # ""
                THEN /\ krw_balance' = krw_balance + SellNet(raised[ticker], price)
                     /\ total_trades' = total_trades + 1
                     /\ total_profit' = total_profit + SellProfit(raised[ticker], price)
                     /\ winning_trades' = IF SellProfit(raised[ticker], price) > 0
                                          THEN winning_trades + 1 ELSE winning_trades
                     /\ positions' = SellPositions(raised, ticker, price, today)
                     /\ trades' = <<SellTrade(raised, raised[ticker].strategy_name,
                                              ticker, price, reason)>>
                     /\ pc' = AfterExit.pc
                     /\ idx' = AfterExit.idx
                     /\ lastLog' = Log("risk_exit", reason)
                ELSE /\ positions' = raised
                     /\ UNCHANGED <<krw_balance, total_trades, winning_trades, total_profit>>
                     /\ trades' = <<>>
                     /\ idx' = 1
                     /\ pc' = "loop"
                     /\ lastLog' = Log("no_exit", "")
    /\ TrackLossHit
    /\ UNCHANGED <<other, bus, rate, ws>>
    /\ market_data' = NextMarketData(pc', positions', tick')

\* the loop ending after any strategy
NextPc_Return == "ret"

\* one iteration of `for strategy in self.strategies`: evaluate and _execute_signal
NextPc == IF idx = NumStrategies THEN "ret" ELSE "loop"

\* the strategy returns None
StrategyNone ==
    /\ pc = "loop"
    /\ pc' = NextPc
    /\ idx' = idx + 1
    /\ lastLog' = Log("no_signal", "")
    /\ UNCHANGED <<today, cfg, portfolioVars, daily_pnl, trade_log, tick, trades, nops>>
    /\ TrackLossHit
    /\ UNCHANGED <<other, bus, rate, ws>>
    /\ market_data' = NextMarketData(pc', positions', tick')

\* the strategy raises: nothing in process_tick catches it
StrategyRaise ==
    /\ pc = "loop"
    /\ pc' = "raised"
    /\ lastLog' = Log("raise", "")
    /\ UNCHANGED <<today, cfg, portfolioVars, daily_pnl, trade_log, tick, idx, trades,
                   nops>>
    /\ TrackLossHit
    /\ UNCHANGED <<other, bus, rate, ws>>
    /\ market_data' = NoMarketData

\* the strategy returns a BUY signal for the tick's ticker: _execute_signal
StrategyBuy ==
    /\ pc = "loop"
    /\ pc' = NextPc
    /\ idx' = idx + 1
    /\ UNCHANGED <<today, cfg, tick, nops>>
    /\ LET d == ResetDaily(daily_pnl, today)
           reason == check_buy("BUY", tick.ticker, positions, krw_balance, total_trades,
                               total_profit, d, cfg.buy_amount, cfg.initial_krw)
           trade == BuyTrade(krw_balance, idx, tick.ticker, tick.price, cfg.buy_amount)
       IN  IF reason # ""
           THEN /\ daily_pnl' = d
                /\ lastLog' = Log("buy_blocked", reason)
                /\ UNCHANGED <<portfolioVars, trade_log, trades>>
           ELSE /\ ApplyBuy(idx, tick.ticker, tick.price, cfg.buy_amount)
                /\ IF trade # NoTrade
                   THEN /\ trade_log' = Append(trade_log, trade)
                        /\ daily_pnl' = record_trade_pnl(d, today, 0)
                        /\ trades' = Append(trades, trade)
                        /\ lastLog' = Log("buy", "")
                   ELSE /\ daily_pnl' = d
                        /\ UNCHANGED <<trade_log, trades>>
                        /\ lastLog' = Log("buy_failed", "")
    /\ TrackLossHit
    /\ UNCHANGED <<other, bus, rate, ws>>
    /\ market_data' = NextMarketData(pc', positions', tick')

\* the strategy returns a SELL signal for the tick's ticker: _execute_signal
StrategySell ==
    /\ pc = "loop"
    /\ pc' = NextPc
    /\ idx' = idx + 1
    /\ UNCHANGED <<today, cfg, tick, nops>>
    /\ LET reason == check_sell("SELL", tick.ticker, positions)
           trade == SellTrade(positions, idx, tick.ticker, tick.price, "signal")
       IN  IF reason # ""
           THEN /\ lastLog' = Log("sell_blocked", reason)
                /\ UNCHANGED <<portfolioVars, daily_pnl, trade_log, trades>>
           ELSE /\ ApplySell(tick.ticker, tick.price)
                /\ IF trade # NoTrade /\ trade.profit # 0
                   THEN /\ trade_log' = Append(trade_log, trade)
                        /\ daily_pnl' = record_trade_pnl(daily_pnl, today, trade.profit)
                   ELSE UNCHANGED <<trade_log, daily_pnl>>
                /\ trades' = IF trade # NoTrade THEN Append(trades, trade) ELSE trades
                /\ lastLog' = Log("sell", "")
    /\ TrackLossHit
    /\ UNCHANGED <<other, bus, rate, ws>>
    /\ market_data' = NextMarketData(pc', positions', tick')

\* process_tick returns `trades` (pc = ret) or propagates the exception (pc = raised)
ProcessTickReturn ==
    /\ pc \in {"ret", "raised"}
    /\ pc' = "idle"
    /\ trades' = <<>>
    /\ idx' = 0
    /\ tick' = [ticker |-> "", price |-> 0]
    /\ lastLog' = Log("returned", "")
    /\ UNCHANGED <<today, cfg, portfolioVars, daily_pnl, trade_log, nops>>
    /\ TrackLossHit
    /\ UNCHANGED <<other, bus, market_data, rate, ws>>

\* ------------------------------------------- direct PortfolioManager calls
ExecuteBuy(ticker, price, amount) ==
    /\ pc = "idle"
    /\ Budget
    /\ Usable(ticker)
    /\ nops' = nops + 1
    /\ ApplyBuy(0, ticker, price, amount)
    /\ lastLog' = [Log("execute_buy",
                        IF BuyTrade(krw_balance, 0, ticker, price, amount) = NoTrade
                        THEN "rejected" ELSE "")
                       EXCEPT !.trade = BuyTrade(krw_balance, 0, ticker, price, amount)]
    /\ UNCHANGED <<today, cfg, daily_pnl, trade_log, pc, tick, idx, trades>>
    /\ TrackLossHit
    /\ UNCHANGED <<other, bus, market_data, rate, ws>>

ExecuteSell(ticker, price) ==
    /\ pc = "idle"
    /\ Budget
    /\ Usable(ticker)
    /\ nops' = nops + 1
    /\ ApplySell(ticker, price)
    /\ lastLog' = [Log("execute_sell",
                        IF SellTrade(positions, 0, ticker, price, "direct") = NoTrade
                        THEN "rejected" ELSE "")
                       EXCEPT !.trade = SellTrade(positions, 0, ticker, price, "direct")]
    /\ UNCHANGED <<today, cfg, daily_pnl, trade_log, pc, tick, idx, trades>>
    /\ TrackLossHit
    /\ UNCHANGED <<other, bus, market_data, rate, ws>>

\* ------------------------------------------------------------------ clock
\* the UTC date changes
AdvanceDay ==
    /\ today < MaxDay
    /\ today' = today + 1
    /\ lastLog' = Log("midnight", "")
    /\ UNCHANGED <<cfg, portfolioVars, daily_pnl, trade_log, pc, tick, idx, trades,
                   nops>>
    /\ TrackLossHit
    /\ UNCHANGED <<other, bus, market_data, rate, ws>>

\* ------------------------------------------------------- specifications
TickNext ==
    \/ \E t \in TickTickers, p \in TickPrices : ProcessTickStart(t, p)
    \/ StrategyNone
    \/ StrategyRaise
    \/ StrategyBuy
    \/ StrategySell
    \/ ProcessTickReturn
    \/ AdvanceDay

\* the engine driven by ticks only
SpecTicks == Init /\ [][TickNext]_vars

Next ==
    \/ TickNext
    \/ \E t \in Tickers, p \in Prices, a \in DirectAmounts : ExecuteBuy(t, p, a)
    \/ \E t \in Tickers, p \in Prices : ExecuteSell(t, p)

\* ticks and direct execute_buy / execute_sell calls
Spec == Init /\ [][Next]_vars

AnyTickNext ==
    \/ \E t \in TickTickers, p \in TickPrices \cup {-20} : ProcessTickStart(t, p)
    \/ StrategyNone
    \/ StrategyRaise
    \/ StrategyBuy
    \/ StrategySell
    \/ ProcessTickReturn

\* the engine driven by ticks whose price is any number
SpecAnyTick == Init /\ [][AnyTickNext]_vars

\* the engine of a trader that pays no fee
SpecNoFee == InitNoFee /\ [][TickNext]_vars

\* traders whose initial balance is at most the 1000000 check_buy divides
\* by, and tick prices every quantity they trade is exact at: prices that
\* halve or double, and for the trader paying a fee of 4 percent prices
\* a twelfth apart
InitSmallAccount ==
    /\ today = 0
    /\ cfg \in {[initial_krw |-> 250000, buy_amount |-> 200000, max_positions |-> 2,
                  fee_rate |-> 1],
                 [initial_krw |-> 500000, buy_amount |-> 200000, max_positions |-> 2,
                  fee_rate |-> 1],
                 [initial_krw |-> 1000000, buy_amount |-> 400000, max_positions |-> 2,
                  fee_rate |-> 1],
                 [initial_krw |-> 1000000, buy_amount |-> 385000, max_positions |-> 2,
                  fee_rate |-> 4]}
    /\ krw_balance = cfg.initial_krw
    /\ positions = [t \in Tickers |-> NoPosition]
    /\ total_trades = 0
    /\ winning_trades = 0
    /\ total_profit = 0
    /\ daily_pnl = [date |-> 0, realized_pnl |-> 0, trades_today |-> 0]
    /\ trade_log = <<>>
    /\ pc = "idle"
    /\ tick = [ticker |-> "", price |-> 0]
    /\ idx = 0
    /\ trades = <<>>
    /\ nops = 0
    /\ lossHitDay = [hardcoded |-> -1, configured |-> -1]
    /\ lastLog = Log("init", "")
    /\ other = NoCall
    /\ market_data = NoMarketData
    /\ rate = NoRate(2)
    /\ ws = NoWebSocket(TRUE)
    /\ bus = NoBus(TRUE)

SmallAccountNext ==
    \/ \E t \in TickTickers, p \in IF cfg.fee_rate = 4 THEN {0, 11, 12} ELSE {0, 10, 20} :
            ProcessTickStart(t, p)
    \/ StrategyNone
    \/ StrategyRaise
    \/ StrategyBuy
    \/ StrategySell
    \/ ProcessTickReturn
    \/ AdvanceDay

SpecSmallAccount == InitSmallAccount /\ [][SmallAccountNext]_vars

\* ------------------------------------------------------- the advisory layer
\* AIOrchestrator.evaluate_signal returns its decision on the signal of the
\* strategy evaluated next.  ExecutionEngine takes no advisor and
\* _execute_signal reads no decision, so nothing of the engine changes.
Advise(decision) ==
    /\ pc = "loop"
    /\ lastLog.event # "advice"
    /\ lastLog' = Log("advice", decision)
    /\ UNCHANGED <<today, cfg, portfolioVars, daily_pnl, trade_log, pc, tick, idx, trades,
                   nops>>
    /\ TrackLossHit
    /\ UNCHANGED <<other, bus, market_data, rate, ws>>

AdvisedNext ==
    \/ TickNext
    \/ \E d \in {"EXECUTE", "SKIP", "MODIFY"} : Advise(d)

\* the engine beside an advisor that decides on every signal
SpecAdvised == Init /\ [][AdvisedNext]_vars

\* ------------------------------------------- two process_tick calls in flight
\* The event loop leaves the running call at `await strategy.evaluate(...)`
\* (pc = loop) or after its return (pc = idle) and runs the other call: one
\* that has not started yet (it begins with ProcessTickStart) or one that is
\* itself suspended at its await.  pc, tick, idx and trades are the locals of
\* the running call; the portfolio, daily_pnl and trade_log are shared.
SwitchCall ==
    /\ \/ pc = "loop"
       \/ pc = "idle" /\ other.pc = "loop"
    /\ other' = [pc |-> pc, tick |-> tick, idx |-> idx, trades |-> trades,
                 market_data |-> market_data]
    /\ pc' = other.pc
    /\ tick' = other.tick
    /\ idx' = other.idx
    /\ trades' = other.trades
    /\ market_data' = other.market_data
    /\ lastLog' = Log("switch", "")
    /\ UNCHANGED <<today, cfg, portfolioVars, daily_pnl, trade_log, nops, bus, rate, ws>>
    /\ TrackLossHit

InterleavedNext ==
    \/ TickNext
    \/ SwitchCall

\* two interleaved process_tick calls, ticks with a positive price
SpecInterleaved == Init /\ [][InterleavedNext]_vars

AnyInterleavedNext ==
    \/ AnyTickNext
    \/ SwitchCall

\* two interleaved process_tick calls, ticks whose price is any number
SpecAnyInterleaved == Init /\ [][AnyInterleavedNext]_vars

\* -------------------------------------------------------------- EventBus
\* the dicts emitted: a tick whose price is an int or a Decimal
EmitData ==
    {[ticker |-> "T1", price |-> 19, price_type |-> "int"],
     [ticker |-> "T1", price |-> 19, price_type |-> "Decimal"]}

\* json.dumps(data) has no encoding for a Decimal
JsonSerializable(data) == data.price_type # "Decimal"

\* RedisCache.publish: `await self.client.publish(channel, json.dumps(data))`
publish(b, data) ==
    IF ~JsonSerializable(data) THEN "TypeError"
    ELSE IF ~b.connected THEN "ConnectionError"
    ELSE "ok"

\* everything but bus and lastLog stays as it is
BusFrame ==
    UNCHANGED <<today, cfg, portfolioVars, daily_pnl, trade_log, pc, tick, idx, trades,
                nops, lossHitDay, other, market_data, rate, ws>>

\* EventBus.on
on(channel, handler) ==
    /\ Len(bus.handlers[channel]) < MaxHandlers
    /\ bus' = [bus EXCEPT !.handlers[channel] = Append(@, handler)]
    /\ lastLog' = Log("on", channel)
    /\ BusFrame

\* an emit call that ended, by returning or by raising
Ended(call) == call.pc \in {"returned", "raised"}

\* the call e with its outcome
EndEmit(call, how, result) ==
    [call EXCEPT !.pc = how, !.result = result, !.i = 0]

\* the for loop of emit moves to the handler after i: it awaits handler i + 1
\* of the channel's list as it is now, or the list is exhausted (or the
\* channel has none, `.get(channel, [])`) and emit returns
NextHandler(call, hs) ==
    IF call.i < Len(hs)
    THEN [call EXCEPT !.pc = "handler", !.i = @ + 1, !.called = Append(@, call.i + 1)]
    ELSE EndEmit(call, "returned", "returned")

\* EventBus.emit up to its first suspension: json.dumps(data) raises at once,
\* or the call waits for the client's publish
emit(e, channel, data) ==
    /\ bus.emits[e].pc = "idle" \/ Ended(bus.emits[e])
    /\ LET call == [NoEmit EXCEPT !.channel = channel, !.price_type = data.price_type]
       IN  bus' = [bus EXCEPT !.emits[e] =
                      IF ~JsonSerializable(data)
                      THEN EndEmit(call, "raised", "TypeError")
                      ELSE [call EXCEPT !.pc = "publish"]]
    /\ lastLog' = Log("emit", channel)
    /\ BusFrame

\* the client's publish ends: it raises when the connection is lost, else the
\* loop begins over `self._handlers.get(channel, [])`
emit_published(e) ==
    /\ bus.emits[e].pc = "publish"
    /\ LET call == bus.emits[e]
           hs == bus.handlers[call.channel]
       IN  bus' = [bus EXCEPT !.emits[e] =
                      IF ~bus.connected
                      THEN EndEmit(call, "raised", "ConnectionError")
                      ELSE NextHandler(call, hs)]
    /\ lastLog' = Log("publish", bus.emits[e].channel)
    /\ BusFrame

\* the awaited handler ends: `except Exception` logs and goes on, any other
\* exception leaves emit
emit_handler_ends(e) ==
    /\ bus.emits[e].pc = "handler"
    /\ LET call == bus.emits[e]
           hs == bus.handlers[call.channel]
           kind == hs[call.i]
       IN  /\ bus' = [bus EXCEPT !.emits[e] =
                         CASE kind = "returns" -> NextHandler(call, hs)
                           [] kind = "raises Exception" ->
                                 NextHandler([call EXCEPT !.errors = Append(@, call.i)], hs)
                           [] kind = "raises BaseException" ->
                                 EndEmit(call, "raised", "BaseException")]
           /\ lastLog' = IF kind = "raises Exception"
                         THEN Log("event_bus.handler_error", call.channel)
                         ELSE Log("handler", call.channel)
    /\ BusFrame

InitBus ==
    /\ today = 0
    /\ cfg \in Configs
    /\ krw_balance = cfg.initial_krw
    /\ positions = [t \in Tickers |-> NoPosition]
    /\ total_trades = 0
    /\ winning_trades = 0
    /\ total_profit = 0
    /\ daily_pnl = [date |-> 0, realized_pnl |-> 0, trades_today |-> 0]
    /\ trade_log = <<>>
    /\ pc = "idle"
    /\ tick = [ticker |-> "", price |-> 0]
    /\ idx = 0
    /\ trades = <<>>
    /\ nops = 0
    /\ lossHitDay = [hardcoded |-> -1, configured |-> -1]
    /\ lastLog = Log("init", "")
    /\ other = NoCall
    /\ market_data = NoMarketData
    /\ rate = NoRate(2)
    /\ ws = NoWebSocket(TRUE)
    /\ bus \in {NoBus(c) : c \in BOOLEAN}

BusNext ==
    \/ \E c \in Channels, h \in {"returns", "raises Exception", "raises BaseException"} : on(c, h)
    \/ \E e \in Emitters, c \in Channels, d \in EmitData : emit(e, c, d)
    \/ \E e \in Emitters : emit_published(e)
    \/ \E e \in Emitters : emit_handler_ends(e)

\* on and emit calls of two coroutines, interleaved at the awaits of emit
SpecBus == InitBus /\ [][BusNext]_vars

\* ------------------------------------------------ RedisCache.check_rate_limit
\* everything but rate stays as it is
RateFrame ==
    UNCHANGED <<today, cfg, portfolioVars, daily_pnl, trade_log, pc, tick, idx, trades,
                nops, lossHitDay, other, bus, market_data, ws>>

\* `current = await self.client.get(...)` and the test on it: the call
\* returns False, or goes on to the pipeline.  A missing key reads as None.
RateGet(c) ==
    /\ rate.callers[c].pc = "idle"
    /\ rate.calls < MaxRateCalls
    /\ IF rate.count # 0 /\ rate.count >= rate.max_count
       THEN /\ rate' = [rate EXCEPT !.calls = @ + 1,
                                    !.callers[c] = [pc |-> "idle", current |-> rate.count]]
            /\ lastLog' = Log("check_rate_limit", "False")
       ELSE /\ rate' = [rate EXCEPT !.calls = @ + 1,
                                    !.callers[c] = [pc |-> "pipe", current |-> rate.count]]
            /\ lastLog' = Log("check_rate_limit", "get")
    /\ RateFrame

\* `await pipe.execute()` (incr and expire) and `return True`
RateExecute(c) ==
    /\ rate.callers[c].pc = "pipe"
    /\ rate' = [rate EXCEPT !.count = @ + 1, !.allowed = @ + 1,
                            !.callers[c].pc = "idle"]
    /\ lastLog' = Log("check_rate_limit", "True")
    /\ RateFrame

\* window_secs after the last expire the key is gone
RateExpire ==
    /\ rate.count > 0
    /\ rate' = [rate EXCEPT !.count = 0, !.allowed = 0]
    /\ lastLog' = Log("expired", "")
    /\ RateFrame

InitRateLimit ==
    /\ today = 0
    /\ cfg \in Configs
    /\ krw_balance = cfg.initial_krw
    /\ positions = [t \in Tickers |-> NoPosition]
    /\ total_trades = 0
    /\ winning_trades = 0
    /\ total_profit = 0
    /\ daily_pnl = [date |-> 0, realized_pnl |-> 0, trades_today |-> 0]
    /\ trade_log = <<>>
    /\ pc = "idle"
    /\ tick = [ticker |-> "", price |-> 0]
    /\ idx = 0
    /\ trades = <<>>
    /\ nops = 0
    /\ lossHitDay = [hardcoded |-> -1, configured |-> -1]
    /\ lastLog = Log("init", "")
    /\ other = NoCall
    /\ market_data = NoMarketData
    /\ rate \in {NoRate(m) : m \in {1, 2}}
    /\ ws = NoWebSocket(TRUE)
    /\ bus = NoBus(TRUE)

RateLimitNext ==
    \/ \E c \in RateCallers : RateGet(c)
    \/ \E c \in RateCallers : RateExecute(c)
    \/ RateExpire

\* callers whose calls interleave at the two awaits
SpecRateLimit == InitRateLimit /\ [][RateLimitNext]_vars

\* one caller: each call ends before the next begins
SpecRateSequential ==
    InitRateLimit /\ [][RateGet("a") \/ RateExecute("a") \/ RateExpire]_vars

\* ------------------------------------------------------------ UpbitWebSocket
\* everything but ws stays as it is
WsFrame ==
    UNCHANGED <<today, cfg, portfolioVars, daily_pnl, trade_log, pc, tick, idx, trades,
                nops, lossHitDay, other, bus, market_data, rate>>

\* where start() goes when it has left the try block: the test `if
\* self._running` before the sleep, and the loop test after it when the
\* sleep is skipped
AfterTry(running) == IF running THEN "sleeping" ELSE "returned"

\* the lines start() writes when it leaves the try block: the line of the
\* except clause ("" when none ran), and websocket.reconnecting before the
\* sleep as the reason
AfterTryLog(line, running) == Log(line, IF running THEN "websocket.reconnecting" ELSE "")

\* start() leaves the body of the async with, normally (exc "") or with an
\* exception: __aexit__ awaits the close of the connection
LeaveAsyncWith(exc) == [ws EXCEPT !.pc = "closing", !.exc = exc]

\* start() up to its first await, websockets.connect
WsStart ==
    /\ ws.pc = "new"
    /\ ws' = [ws EXCEPT !.running = TRUE, !.pc = "connecting"]
    /\ lastLog' = Log("start", "")
    /\ WsFrame

\* the connection opens: self._ws = ws, and start() awaits ws.send(payload)
WsConnected ==
    /\ ws.pc = "connecting"
    /\ ws' = [ws EXCEPT !.socket = "open", !.pc = "sending"]
    /\ lastLog' = Log("websocket.connected", "")
    /\ WsFrame

\* websockets.connect raises: except Exception, and the test of _running
WsConnectFails ==
    /\ ws.pc = "connecting"
    /\ ws' = [ws EXCEPT !.pc = AfterTry(ws.running)]
    /\ lastLog' = AfterTryLog("websocket.error", ws.running)
    /\ WsFrame

\* ws.send returns: start() waits for a message
WsSent ==
    /\ ws.pc = "sending"
    /\ ws' = [ws EXCEPT !.pc = "listening"]
    /\ lastLog' = Log("send", "returned")
    /\ WsFrame

\* ws.send raises
WsSendFails ==
    /\ ws.pc = "sending"
    /\ \E exc \in {"ConnectionClosed", "Exception"} : ws' = LeaveAsyncWith(exc)
    /\ lastLog' = Log("send", "raised")
    /\ WsFrame

\* a message arrives: break when _running is False, else parse it and
\* await on_tick when there is one and the message parsed to a dict.
\* _parse_message returns a dict, returns None (not JSON), or raises what it
\* does not catch (ValueError, AttributeError, UnicodeDecodeError).
WsMessage ==
    /\ ws.pc = "listening"
    /\ ws.socket = "open"
    /\ \E msg \in {"dict", "None", "raises"} :
         IF ~ws.running
         THEN /\ ws' = LeaveAsyncWith("")
              /\ lastLog' = Log("message", "break")
         ELSE IF msg = "raises"
         THEN /\ ws' = LeaveAsyncWith("Exception")
              /\ lastLog' = Log("message", "raised")
         ELSE IF msg = "dict" /\ ws.on_tick
         THEN /\ ws.ticks < MaxTicks
              /\ ws' = [ws EXCEPT !.pc = "on_tick", !.ticks = @ + 1]
              /\ lastLog' = Log("on_tick", "")
         ELSE /\ ws' = ws
              /\ lastLog' = Log("message",
                                IF msg = "None" THEN "websocket.parse_error" ELSE "")
    /\ WsFrame

\* on_tick returns: back to the async for
WsOnTickReturns ==
    /\ ws.pc = "on_tick"
    /\ ws' = [ws EXCEPT !.pc = "listening"]
    /\ lastLog' = Log("on_tick", "returned")
    /\ WsFrame

\* on_tick raises, an Exception or a BaseException that is none
\* (KeyboardInterrupt, SystemExit, asyncio.CancelledError)
WsOnTickRaises ==
    /\ ws.pc = "on_tick"
    /\ \E exc \in {"Exception", "BaseException"} : ws' = LeaveAsyncWith(exc)
    /\ lastLog' = Log("on_tick", "raised")
    /\ WsFrame

\* the peer or the network closes the connection
WsConnectionClosed ==
    /\ ws.pc \in {"sending", "listening", "on_tick"}
    /\ ws.socket = "open"
    /\ ws' = [ws EXCEPT !.socket = "closed"]
    /\ lastLog' = Log("connection", "closed")
    /\ WsFrame

\* the async for finds the connection closed, by the peer or by stop(): it
\* ends, or raises ConnectionClosed
WsIterationEnds ==
    /\ ws.pc = "listening"
    /\ ws.socket = "closed"
    /\ \E exc \in {"", "ConnectionClosed"} : ws' = LeaveAsyncWith(exc)
    /\ lastLog' = Log("iteration", "ended")
    /\ WsFrame

\* the close awaited by the async with ends: the except clause logs,
\* _running is tested and websocket.reconnecting is logged before the sleep.
\* A BaseException is caught by neither except clause: start() ends by
\* raising it, nothing is logged and _running stays as it is.
WsClosed ==
    /\ ws.pc = "closing"
    /\ ws' = [ws EXCEPT !.socket = "closed", !.exc = "",
                        !.pc = IF ws.exc = "BaseException" THEN "raised"
                               ELSE AfterTry(ws.running)]
    /\ lastLog' = CASE ws.exc = "ConnectionClosed" ->
                            AfterTryLog("websocket.disconnected", ws.running)
                     [] ws.exc = "Exception" -> AfterTryLog("websocket.error", ws.running)
                     [] ws.exc = "BaseException" -> Log("start", "raised")
                     [] OTHER -> AfterTryLog("", ws.running)
    /\ WsFrame

\* asyncio.sleep(reconnect_interval) ends: the loop test, nothing is logged
WsWake ==
    /\ ws.pc = "sleeping"
    /\ ws' = [ws EXCEPT !.pc = IF ws.running THEN "connecting" ELSE "returned"]
    /\ lastLog' = Log("sleep", "ended")
    /\ WsFrame

\* stop() up to its await: _running = False, and with a connection in
\* self._ws it awaits the close of that connection ("closing" when it is
\* open, "closing old" when it was closed before)
WsStop ==
    /\ ws.pc \notin {"new", "returned"}
    /\ ~ws.stopped
    /\ ws' = [ws EXCEPT !.running = FALSE, !.stopped = TRUE,
                        !.stop_pc = CASE ws.socket = "None" -> "ended"
                                      [] ws.socket = "open" -> "closing"
                                      [] OTHER -> "closing old"]
    /\ lastLog' = Log("stop", "")
    /\ WsFrame

\* the close awaited by stop() ends
WsStopEnds ==
    /\ ws.stop_pc \in {"closing", "closing old"}
    /\ ws' = [ws EXCEPT !.stop_pc = "ended",
                        !.socket = IF ws.stop_pc = "closing" THEN "closed" ELSE @]
    /\ lastLog' = Log("websocket.stopped", "")
    /\ WsFrame

InitWebSocket ==
    /\ today = 0
    /\ cfg \in Configs
    /\ krw_balance = cfg.initial_krw
    /\ positions = [t \in Tickers |-> NoPosition]
    /\ total_trades = 0
    /\ winning_trades = 0
    /\ total_profit = 0
    /\ daily_pnl = [date |-> 0, realized_pnl |-> 0, trades_today |-> 0]
    /\ trade_log = <<>>
    /\ pc = "idle"
    /\ tick = [ticker |-> "", price |-> 0]
    /\ idx = 0
    /\ trades = <<>>
    /\ nops = 0
    /\ lossHitDay = [hardcoded |-> -1, configured |-> -1]
    /\ lastLog = Log("init", "")
    /\ other = NoCall
    /\ market_data = NoMarketData
    /\ rate = NoRate(2)
    /\ ws \in {NoWebSocket(f) : f \in BOOLEAN}
    /\ bus = NoBus(TRUE)

WebSocketNext ==
    \/ WsStart
    \/ WsConnected
    \/ WsConnectFails
    \/ WsSent
    \/ WsSendFails
    \/ WsMessage
    \/ WsOnTickReturns
    \/ WsOnTickRaises
    \/ WsConnectionClosed
    \/ WsIterationEnds
    \/ WsClosed
    \/ WsWake
    \/ WsStop
    \/ WsStopEnds

SpecWebSocket == InitWebSocket /\ [][WebSocketNext]_vars

\* what the event loop and the library's timeouts guarantee: a started
\* coroutine runs, a connection attempt ends (open_timeout), a send and
\* on_tick end, a closed connection is noticed, a close ends (close_timeout)
\* and the sleep ends.  Nothing makes the peer send a message or close, or
\* the owner call stop().
SpecWebSocketFair ==
    /\ SpecWebSocket
    /\ WF_vars(WsStart)
    /\ WF_vars(WsConnected \/ WsConnectFails)
    /\ WF_vars(WsSent \/ WsSendFails)
    /\ WF_vars(WsOnTickReturns \/ WsOnTickRaises)
    /\ WF_vars(WsIterationEnds)
    /\ WF_vars(WsClosed)
    /\ WF_vars(WsWake)
    /\ WF_vars(WsStopEnds)

\* ------------------------------------------------------------- strategies
\* Strategy.evaluate(ticker, market_data) of the six variants: the signal
\* type it returns, "NONE" for None.  Prices, volumes and thresholds are
\* integers.  The strategies compute in binary floating point: a percentage
\* change is kept as its exact value and the direction its rounding took
\* (FloatChangePct), the other comparisons are on values the floats hold
\* exactly.  dip_buy has the default drop_pct and recovery_pct.
StrategyParams ==
    [dip_buy |-> [drop_pct |-> -7, recovery_pct |-> 2, timeframe_hours |-> 2],
     momentum |-> [lookback_hours |-> 2, entry_threshold |-> 50, exit_threshold |-> -50],
     fear_greed |-> [buy_threshold |-> 25, sell_threshold |-> 75],
     volatility_breakout |-> [k_num |-> 1, k_den |-> 2],
     volume_surge |-> [lookback_hours |-> 3, volume_multiplier |-> 3]]

\* `(current_price / start_price - 1) * 100` in binary64, for start_price > 0:
\* the exact value num / den, and err, the sign of what the division, the
\* subtraction and the multiplication together added to it.  err is tabled
\* for the prices of the views; on them the rounding is far smaller than the
\* distance of any inexact value from a threshold.
FloatChangePct(current_price, start_price) ==
    [num |-> (current_price - start_price) * 100, den |-> start_price,
     err |-> IF <<current_price, start_price>> \in
                    {<<50, 102>>, <<93, 50>>, <<93, 100>>, <<102, 100>>, <<102, 150>>,
                     <<150, 102>>}
             THEN 1
             ELSE IF <<current_price, start_price>> \in
                    {<<50, 93>>, <<50, 150>>, <<93, 102>>, <<100, 93>>, <<100, 102>>,
                     <<100, 150>>, <<102, 93>>, <<150, 93>>}
             THEN -1
             ELSE 0]

\* x <= pct and x >= pct for a FloatChangePct x and a threshold the float
\* holds exactly
FloatLE(x, pct) == IF x.num = pct * x.den THEN x.err <= 0 ELSE x.num <= pct * x.den

FloatGE(x, pct) == IF x.num = pct * x.den THEN x.err >= 0 ELSE x.num >= pct * x.den

\* h[-n:] for n > 0
LastN(h, n) == IF Len(h) <= n THEN h ELSE SubSeq(h, Len(h) - n + 1, Len(h))

RECURSIVE SumSeq(_)
SumSeq(h) == IF h = <<>> THEN 0 ELSE h[1] + SumSeq(Tail(h))

\* DipBuyStrategy.evaluate
DipBuy(md, par) ==
    IF md.price_history = <<>> \/ md.current_price = 0 THEN "NONE"
    ELSE LET history == LastN(md.price_history, par.timeframe_hours + 1)
         IN  IF Len(history) < 2 THEN "NONE"
             \* change_pct = (current_price / start_price - 1) * 100
             ELSE IF history[1] = 0 THEN "RAISE"
             ELSE IF /\ md.has_position
                     /\ md.entry_price > 0
                     /\ FloatGE(FloatChangePct(md.current_price, md.entry_price),
                                par.recovery_pct)
                 THEN "SELL"
             ELSE IF /\ ~md.has_position
                     /\ FloatLE(FloatChangePct(md.current_price, history[1]), par.drop_pct)
                 THEN "BUY"
             ELSE "NONE"

\* MomentumStrategy.evaluate
Momentum(md, par) ==
    IF md.price_history = <<>> \/ md.current_price = 0 THEN "NONE"
    ELSE LET history == LastN(md.price_history, par.lookback_hours + 1)
         IN  IF Len(history) < 2 THEN "NONE"
             \* change_pct = (current_price / start_price - 1) * 100
             ELSE IF history[1] = 0 THEN "RAISE"
             ELSE IF /\ md.has_position
                     /\ md.entry_price > 0
                     /\ FloatLE(FloatChangePct(md.current_price, md.entry_price),
                                par.exit_threshold)
                 THEN "SELL"
             ELSE IF /\ ~md.has_position
                     /\ FloatGE(FloatChangePct(md.current_price, history[1]),
                                par.entry_threshold)
                 THEN "BUY"
             ELSE "NONE"

\* FearGreedStrategy.evaluate
FearGreed(md, par) ==
    IF md.fear_greed_value < 0 THEN "NONE"
    ELSE IF md.has_position /\ md.fear_greed_value >= par.sell_threshold THEN "SELL"
    ELSE IF ~md.has_position /\ md.fear_greed_value <= par.buy_threshold THEN "BUY"
    ELSE "NONE"

\* VolatilityBreakoutStrategy.evaluate, k_factor = k_num / k_den
VolatilityBreakout(md, par) ==
    IF md.current_price = 0 \/ md.prev_high = 0 \/ md.prev_low = 0 THEN "NONE"
    ELSE LET range_val == md.prev_high - md.prev_low
             \* target * k_den
             target == IF md.open_price # 0
                       THEN md.open_price * par.k_den + par.k_num * range_val ELSE 0
         IN  IF range_val <= 0 THEN "NONE"
             ELSE IF /\ ~md.has_position
                     /\ target > 0
                     /\ md.current_price * par.k_den > target
                 THEN "BUY"
             ELSE "NONE"

\* VolumeSurgeStrategy.evaluate
VolumeSurge(md, par) ==
    IF md.volume_history = <<>> \/ md.volume = 0 THEN "NONE"
    ELSE LET history == LastN(md.volume_history, par.lookback_hours)
         IN  IF Len(history) < 2 THEN "NONE"
             ELSE IF SumSeq(history) <= 0 THEN "NONE"
             ELSE IF /\ ~md.has_position
                     /\ md.volume * Len(history) >= par.volume_multiplier * SumSeq(history)
                     /\ md.change_pct > 0
                 THEN "BUY"
             ELSE "NONE"

\* NoticeAlpha not looking at has_position
NoticeAlpha_IgnoresPosition(ticker, md) ==
    IF md.notices = <<>> THEN "NONE"
    ELSE IF \E i \in 1..Len(md.notices) :
                /\ ticker \in md.notices[i].tickers
                /\ md.notices[i].matched_keywords # <<>>
         THEN "BUY"
    ELSE "NONE"

\* NoticeAlphaStrategy.evaluate
NoticeAlpha(ticker, md) ==
    IF md.notices = <<>> \/ md.has_position THEN "NONE"
    ELSE IF \E i \in 1..Len(md.notices) :
                /\ ticker \in md.notices[i].tickers
                /\ md.notices[i].matched_keywords # <<>>
         THEN "BUY"
    ELSE "NONE"

\* ---- Signal.strength: the float is the binary64 number nearest to
\* num / den, moved by ulps units in the last place
Ratio(n, d) ==
    IF d < 0 THEN [num |-> -n, den |-> -d, ulps |-> 0] ELSE [num |-> n, den |-> d, ulps |-> 0]

\* min(x, 1.0)
MinOne(r) ==
    IF r.num > r.den \/ (r.num = r.den /\ r.ulps >= 0) THEN [num |-> 1, den |-> 1, ulps |-> 0]
    ELSE r

\* max(x, n / d)
MaxWith(r, n, d) == IF r.num * d < n * r.den THEN [num |-> n, den |-> d, ulps |-> 0] ELSE r

\* `abs(pct) / divisor` with pct the rounded `(current_price / base_price - 1)
\* * 100`: the units in the last place between that quotient and the float
\* nearest to the exact one, tabled for the prices of the views
StrengthUlps(current_price, base_price, divisor) ==
    CASE <<current_price, base_price, divisor>> = <<93, 102, 14>> -> 2
      [] <<current_price, base_price, divisor>> = <<102, 100, 4>> -> 4
      [] <<current_price, base_price, divisor>> = <<93, 50, 100>> -> 1
      [] <<current_price, base_price, divisor>> = <<150, 93, 100>> -> -1
      [] OTHER -> 0

\* the strength DipBuy gives its SELL or BUY signal
DipBuyStrength(md, par, type) ==
    LET start_price == LastN(md.price_history, par.timeframe_hours + 1)[1]
        c == md.current_price
        e == md.entry_price
    IN  IF type = "SELL"
        THEN MinOne([Ratio((c - e) * 100, e * (par.recovery_pct * 2))
                        EXCEPT !.ulps = StrengthUlps(c, e, par.recovery_pct * 2)])
        ELSE MinOne([Ratio(Abs((c - start_price) * 100),
                           Abs(start_price) * Abs(par.drop_pct * 2))
                        EXCEPT !.ulps = StrengthUlps(c, start_price, Abs(par.drop_pct * 2))])

\* the strength Momentum gives its SELL or BUY signal
MomentumStrength(md, par, type) ==
    LET start_price == LastN(md.price_history, par.lookback_hours + 1)[1]
        c == md.current_price
        e == md.entry_price
    IN  IF type = "SELL"
        THEN MinOne([Ratio(Abs((c - e) * 100), Abs(e) * 10)
                        EXCEPT !.ulps = StrengthUlps(c, e, 10)])
        ELSE MinOne([Ratio((c - start_price) * 100,
                           start_price * (par.entry_threshold * 2))
                        EXCEPT !.ulps = StrengthUlps(c, start_price, par.entry_threshold * 2)])

FearGreedStrength(md, par, type) ==
    IF type = "SELL"
    THEN MaxWith(MinOne(Ratio(md.fear_greed_value - par.sell_threshold, 25)), 3, 10)
    ELSE MaxWith(MinOne(Ratio(par.buy_threshold - md.fear_greed_value, 25)), 3, 10)

VolatilityBreakoutStrength(md, par, type) ==
    LET range_val == md.prev_high - md.prev_low
        target == md.open_price * par.k_den + par.k_num * range_val
    IN  MaxWith(MinOne(Ratio(md.current_price * par.k_den - target,
                             range_val * par.k_den)), 1, 10)

VolumeSurgeStrength(md, par, type) ==
    LET history == LastN(md.volume_history, par.lookback_hours)
    IN  MinOne(Ratio(md.volume * Len(history),
                     SumSeq(history) * (par.volume_multiplier * 2)))

NoticeAlphaStrength(ticker, md, type) ==
    LET matching == {i \in 1..Len(md.notices) :
                        /\ ticker \in md.notices[i].tickers
                        /\ md.notices[i].matched_keywords # <<>>}
        first == CHOOSE i \in matching : \A j \in matching : i <= j
        kws == md.notices[first].matched_keywords
    IN  IF \E k \in 1..Len(kws) : kws[k] \in {"new", "listing"}
        THEN [num |-> 9, den |-> 10, ulps |-> 0] ELSE [num |-> 6, den |-> 10, ulps |-> 0]

\* what evaluate returns: the Signal for a BUY or SELL, None otherwise
SignalOf(type, strength) ==
    IF type \in {"BUY", "SELL"} THEN [signal_type |-> type, strength |-> strength]
    ELSE NoTrade

\* the market_data dicts handed to evaluate: every key a strategy reads,
\* with the default its .get() uses when the key is absent
NoView ==
    [ticker |-> "T1", current_price |-> 0, price_history |-> <<>>, has_position |-> FALSE,
     entry_price |-> 0, fear_greed_value |-> -1, open_price |-> 0, prev_high |-> 0,
     prev_low |-> 0, volume |-> 0, volume_history |-> <<>>, change_pct |-> 0,
     notices |-> <<>>]

SeqsUpTo(S, n) == UNION {[1..k -> S] : k \in 0..n}

ViewPrices == {50, 93, 100, 102, 150}

PriceViews ==
    {[NoView EXCEPT !.price_history = h, !.current_price = c, !.has_position = hp,
                    !.entry_price = e] :
        h \in SeqsUpTo(ViewPrices, MaxHistory), c \in ViewPrices \cup {0},
        hp \in BOOLEAN, e \in {0, 50, 100}}

FearGreedViews ==
    {[NoView EXCEPT !.fear_greed_value = v, !.has_position = hp] :
        v \in {-1, 0, 25, 26, 74, 75, 100}, hp \in BOOLEAN}

BreakoutViews ==
    {[NoView EXCEPT !.current_price = c, !.open_price = o, !.prev_high = ph,
                    !.prev_low = pl, !.has_position = hp] :
        c \in {0, 100, 150, 200}, o \in {0, 100}, ph \in {0, 150, 200},
        pl \in {0, 100, 200}, hp \in BOOLEAN}

VolumeViews ==
    {[NoView EXCEPT !.volume_history = h, !.volume = v, !.change_pct = ch,
                    !.has_position = hp] :
        h \in SeqsUpTo({0, 100, 200}, MaxHistory), v \in {0, 100, 300, 600},
        ch \in {-1, 0, 1}, hp \in BOOLEAN}

Notices ==
    {[tickers |-> {"T1"}, matched_keywords |-> <<"listing">>],
     [tickers |-> {"T2"}, matched_keywords |-> <<"listing">>],
     [tickers |-> {"T1"}, matched_keywords |-> <<"warning">>],
     [tickers |-> {"T1", "T2"}, matched_keywords |-> <<>>]}

NoticeViews ==
    {[NoView EXCEPT !.notices = n, !.has_position = hp] :
        n \in SeqsUpTo(Notices, 2), hp \in BOOLEAN}

MarketViews == PriceViews \cup FearGreedViews \cup BreakoutViews \cup VolumeViews
                    \cup NoticeViews

\* tick holds the market view a strategy is called with
InitStrategies ==
    /\ today = 0
    /\ cfg \in Configs
    /\ krw_balance = cfg.initial_krw
    /\ positions = [t \in Tickers |-> NoPosition]
    /\ total_trades = 0
    /\ winning_trades = 0
    /\ total_profit = 0
    /\ daily_pnl = [date |-> 0, realized_pnl |-> 0, trades_today |-> 0]
    /\ trade_log = <<>>
    /\ pc = "idle"
    /\ tick \in MarketViews
    /\ idx = 0
    /\ trades = <<>>
    /\ nops = 0
    /\ lossHitDay = [hardcoded |-> -1, configured |-> -1]
    /\ lastLog = Log("init", "")
    /\ other = NoCall
    /\ market_data = NoMarketData
    /\ rate = NoRate(2)
    /\ ws = NoWebSocket(TRUE)
    /\ bus = NoBus(TRUE)

EvaluateFrame ==
    /\ lastLog.event = "init"
    /\ UNCHANGED <<today, cfg, portfolioVars, daily_pnl, trade_log, pc, tick, idx, trades,
                   nops, lossHitDay, other, bus, market_data, rate, ws>>

EvaluateDipBuy ==
    /\ EvaluateFrame
    /\ LET type == DipBuy(tick, StrategyParams.dip_buy)
       IN  lastLog' = [Log("dip_buy", type)
                          EXCEPT !.trade = IF type \in {"BUY", "SELL"}
                                           THEN SignalOf(type, DipBuyStrength(tick, StrategyParams.dip_buy, type))
                                           ELSE NoTrade]

EvaluateMomentum ==
    /\ EvaluateFrame
    /\ LET type == Momentum(tick, StrategyParams.momentum)
       IN  lastLog' = [Log("momentum", type)
                          EXCEPT !.trade = IF type \in {"BUY", "SELL"}
                                           THEN SignalOf(type, MomentumStrength(tick, StrategyParams.momentum, type))
                                           ELSE NoTrade]

EvaluateFearGreed ==
    /\ EvaluateFrame
    /\ LET type == FearGreed(tick, StrategyParams.fear_greed)
       IN  lastLog' = [Log("fear_greed", type)
                          EXCEPT !.trade = IF type \in {"BUY", "SELL"}
                                           THEN SignalOf(type, FearGreedStrength(tick, StrategyParams.fear_greed, type))
                                           ELSE NoTrade]

EvaluateVolatilityBreakout ==
    /\ EvaluateFrame
    /\ LET type == VolatilityBreakout(tick, StrategyParams.volatility_breakout)
       IN  lastLog' = [Log("volatility_breakout", type)
                          EXCEPT !.trade = IF type \in {"BUY", "SELL"}
                                           THEN SignalOf(type,
                                                    VolatilityBreakoutStrength(tick,
                                                        StrategyParams.volatility_breakout,
                                                        type))
                                           ELSE NoTrade]

EvaluateVolumeSurge ==
    /\ EvaluateFrame
    /\ LET type == VolumeSurge(tick, StrategyParams.volume_surge)
       IN  lastLog' = [Log("volume_surge", type)
                          EXCEPT !.trade = IF type \in {"BUY", "SELL"}
                                           THEN SignalOf(type, VolumeSurgeStrength(tick, StrategyParams.volume_surge, type))
                                           ELSE NoTrade]

EvaluateNoticeAlpha ==
    /\ EvaluateFrame
    /\ LET type == NoticeAlpha(tick.ticker, tick)
       IN  lastLog' = [Log("notice_alpha", type)
                          EXCEPT !.trade = IF type \in {"BUY", "SELL"}
                                           THEN SignalOf(type, NoticeAlphaStrength(tick.ticker, tick, type))
                                           ELSE NoTrade]

StrategiesNext ==
    \/ EvaluateDipBuy
    \/ EvaluateMomentum
    \/ EvaluateFearGreed
    \/ EvaluateVolatilityBreakout
    \/ EvaluateVolumeSurge
    \/ EvaluateNoticeAlpha

SpecStrategies == InitStrategies /\ [][StrategiesNext]_vars

\* the views of SpecStrategies and price histories that hold a 0
InitAnyView ==
    /\ today = 0
    /\ cfg \in Configs
    /\ krw_balance = cfg.initial_krw
    /\ positions = [t \in Tickers |-> NoPosition]
    /\ total_trades = 0
    /\ winning_trades = 0
    /\ total_profit = 0
    /\ daily_pnl = [date |-> 0, realized_pnl |-> 0, trades_today |-> 0]
    /\ trade_log = <<>>
    /\ pc = "idle"
    /\ tick \in MarketViews \cup
            {[NoView EXCEPT !.price_history = h, !.current_price = c, !.has_position = hp,
                            !.entry_price = e] :
                h \in SeqsUpTo({0, 100}, MaxHistory), c \in {0, 50, 100},
                hp \in BOOLEAN, e \in {0, 100}}
    /\ idx = 0
    /\ trades = <<>>
    /\ nops = 0
    /\ lossHitDay = [hardcoded |-> -1, configured |-> -1]
    /\ lastLog = Log("init", "")
    /\ other = NoCall
    /\ market_data = NoMarketData
    /\ rate = NoRate(2)
    /\ ws = NoWebSocket(TRUE)
    /\ bus = NoBus(TRUE)

\* the strategies evaluated on views that may hold a price of 0
SpecAnyView == InitAnyView /\ [][StrategiesNext]_vars

\* ------------------------------------------- the exit checks called directly
\* check_stop_loss, check_take_profit and check_trailing_stop are given a
\* position and a price.  The position under test is T1's: bought at entry
\* price e, seen as high as e or 1.1 * e, OPEN or sold again at e; the price
\* is a percentage of e on, just inside and just outside each threshold.
OpenUnderTest(e, h) ==
    [status |-> "OPEN", strategy_name |-> 1, entry_price |-> e,
     quantity |-> (PercentDen - 1) * PercentDen, highest_price |-> h,
     exit_price |-> 0, exit_time |-> NoTime, profit |-> 0, profit_pct |-> NoPct]

InitExitChecks ==
    /\ today = 0
    /\ cfg \in Configs
    /\ \E st \in {"OPEN", "CLOSED"}, e \in {100, 200}, hp \in {100, 110},
          k \in {94, 95, 96, 97, 98, 100, 103, 109, 110, 111} :
        LET open == OpenUnderTest(e, Div(e * hp, PercentDen))
            held == [t \in Tickers |-> IF t = "T1" THEN open ELSE NoPosition]
            paid == open.quantity * e + Fee(PercentDen * PercentDen * e)
        IN  /\ positions = IF st = "OPEN" THEN held ELSE SellPositions(held, "T1", e, 0)
            /\ krw_balance = cfg.initial_krw - paid
                                + (IF st = "OPEN" THEN 0 ELSE SellNet(open, e))
            /\ total_trades = IF st = "OPEN" THEN 0 ELSE 1
            /\ total_profit = IF st = "OPEN" THEN 0 ELSE SellProfit(open, e)
            /\ tick = [ticker |-> "T1", price |-> Div(e * k, PercentDen)]
    /\ winning_trades = 0
    /\ daily_pnl = [date |-> 0, realized_pnl |-> 0, trades_today |-> 0]
    /\ trade_log = <<>>
    /\ pc = "idle"
    /\ idx = 0
    /\ trades = <<>>
    /\ nops = 0
    /\ lossHitDay = [hardcoded |-> -1, configured |-> -1]
    /\ lastLog = Log("init", "")
    /\ other = NoCall
    /\ market_data = NoMarketData
    /\ rate = NoRate(2)
    /\ ws = NoWebSocket(TRUE)
    /\ bus = NoBus(TRUE)

\* RiskCheck.allowed of a check
Allowed(b) == IF b THEN "allowed" ELSE ""

CheckFrame ==
    /\ lastLog.event = "init"
    /\ UNCHANGED <<today, cfg, portfolioVars, daily_pnl, trade_log, pc, tick, idx, trades,
                   nops, lossHitDay, other, bus, market_data, rate, ws>>

CheckStopLoss ==
    /\ CheckFrame
    /\ lastLog' = Log("check_stop_loss",
                      Allowed(check_stop_loss(positions[tick.ticker], tick.price)))

CheckTakeProfit ==
    /\ CheckFrame
    /\ lastLog' = Log("check_take_profit",
                      Allowed(check_take_profit(positions[tick.ticker], tick.price)))

CheckTrailingStop ==
    /\ CheckFrame
    /\ lastLog' = Log("check_trailing_stop",
                      Allowed(check_trailing_stop(positions[tick.ticker], tick.price)))

ExitChecksNext ==
    \/ CheckStopLoss
    \/ CheckTakeProfit
    \/ CheckTrailingStop

SpecExitChecks == InitExitChecks /\ [][ExitChecksNext]_vars

PortfolioNext ==
    \/ \E t \in Tickers, p \in Prices, a \in DirectAmounts : ExecuteBuy(t, p, a)
    \/ \E t \in Tickers, p \in Prices : ExecuteSell(t, p)

\* the PortfolioManager alone, called directly
SpecPortfolio == Init /\ [][PortfolioNext]_vars

TypeOK ==
    /\ krw_balance \in Int
    /\ total_profit \in Int
    /\ daily_pnl.realized_pnl \in Int
    /\ \A t \in Tickers : positions[t].quantity \in Int /\ positions[t].profit \in Int

\* ================================================================ claims
OpenCount(pos) == Cardinality(get_open_positions(pos))

\* the steps in which _execute_signal handles a BUY signal
BuyEvents == {"buy", "buy_blocked", "buy_failed"}

ExitReasons == {"Stop-loss triggered", "Take-profit triggered", "Trailing stop"}

\* C1: the balance is never negative; a rejected execute_buy changes nothing
\* in the portfolio and an executed one took an amount within the balance;
\* a BUY signal whose buy_amount exceeds the balance is blocked and changes
\* nothing.
C1_BalanceNeverNegative ==
    /\ [](krw_balance >= 0)
    /\ [][/\ lastLog' = Log("execute_buy", "rejected") => UNCHANGED portfolioVars
          /\ (lastLog'.event = "execute_buy" /\ lastLog'.reason = "")
                => /\ krw_balance - krw_balance' \in DirectAmounts
                   /\ krw_balance - krw_balance' <= krw_balance
          /\ (lastLog'.event \in BuyEvents /\ cfg.buy_amount > krw_balance)
                => (UNCHANGED portfolioVars /\ lastLog'.event = "buy_blocked")]_vars

C1_Witness ==
    /\ lastLog = Log("execute_buy", "rejected")
    /\ krw_balance >= 0
    /\ krw_balance < cfg.buy_amount

\* C2: the number of OPEN positions never exceeds max_positions, and a BUY
\* signal arriving when that many are OPEN is rejected with "Max positions",
\* produces no trade and changes nothing.
C2_MaxPositions ==
    /\ [](OpenCount(positions) <= cfg.max_positions)
    /\ [][(lastLog'.event \in BuyEvents /\ OpenCount(positions) >= cfg.max_positions)
            => /\ lastLog' = Log("buy_blocked", "Max positions reached")
               /\ trades' = trades
               /\ trade_log' = trade_log
               /\ UNCHANGED portfolioVars]_vars

C2_Witness ==
    /\ lastLog = Log("buy_blocked", "Max positions reached")
    /\ OpenCount(positions) = cfg.max_positions
    /\ positions[tick.ticker].status = "ABSENT"
    /\ krw_balance >= cfg.buy_amount

\* C3: process_tick never executes a BUY for a ticker whose position is
\* OPEN; an OPEN position keeps its entry_price and quantity until it is
\* closed.
C3_NoBuyOverOpen ==
    [][/\ \A t \in Tickers :
            positions[t].status = "OPEN"
                => /\ positions'[t].status \in {"OPEN", "CLOSED"}
                   /\ positions'[t].entry_price = positions[t].entry_price
                   /\ positions'[t].quantity = positions[t].quantity
       /\ lastLog'.event = "buy" => positions[tick.ticker].status # "OPEN"]_vars

\* a BUY over an OPEN position was rejected after all the other checks passed
C3_Witness ==
    /\ lastLog = Log("buy_blocked", "Already have open position")
    /\ positions[tick.ticker].status = "OPEN"
    /\ krw_balance >= cfg.buy_amount

\* C4: a tick on which a risk exit fires returns exactly that one SELL trade
\* and evaluates no strategy.
C4_ExitBeforeEntry ==
    (\E i \in 1..Len(trades) : trades[i].reason \in ExitReasons)
        => /\ Len(trades) = 1
           /\ trades[1].side = "SELL"
           /\ trades[1].ticker = tick.ticker
           /\ positions[tick.ticker].status = "CLOSED"
           /\ pc = "ret"
           /\ idx = 0

C4_Witness ==
    /\ pc = "ret"
    /\ lastLog = Log("risk_exit", "Take-profit triggered")
    /\ Len(trades) = 1

\* C5: a risk exit records the profit of its sell with the Risk Manager:
\* realized_pnl grows by the trade's profit and trades_today by one.
C5_ExitRecorded ==
    [][lastLog'.event = "risk_exit"
        => daily_pnl' = record_trade_pnl(daily_pnl, today, trades'[1].profit)]_vars

\* C6: the exits are tried in the order stop-loss, take-profit, trailing stop
\* and the first that triggers sells: one sell, with the reason of the
\* earliest check that holds.
C6_ExitOrder ==
    [][lastLog'.event = "risk_exit"
        => LET pr == tick'.price
               p == positions[tick'.ticker]
               high == IF pr > p.highest_price THEN pr ELSE p.highest_price
               sl == (pr - p.entry_price) * 100 <= stop_loss_pct * p.entry_price
               tp == (pr - p.entry_price) * 100 >= take_profit_pct * p.entry_price
               ts == (high - pr) * 100 >= trailing_stop_pct * high
           IN  /\ p.status = "OPEN"
               /\ sl \/ tp \/ ts
               /\ lastLog'.reason = IF sl THEN "Stop-loss triggered"
                                    ELSE IF tp THEN "Take-profit triggered"
                                    ELSE "Trailing stop"
               /\ total_trades' = total_trades + 1
               /\ Len(trades') = 1
               /\ trades'[1].reason = lastLog'.reason]_vars

\* stop-loss and trailing stop both held, and the sell was the stop-loss
C6_Witness ==
    /\ lastLog = Log("risk_exit", "Stop-loss triggered")
    /\ LET p == positions[tick.ticker]
       IN  (p.highest_price - p.exit_price) * 100 >= trailing_stop_pct * p.highest_price

\* C7: check_buy reports the first failing check in the order: not a BUY,
\* max positions, balance, daily loss, drawdown, duplicate position; and it
\* allows the buy only when all of them pass.
C7_CheckBuyPrecedence ==
    /\ [](\A t \in Tickers :
            check_buy("SELL", t, positions, krw_balance, total_trades, total_profit,
                      ResetDaily(daily_pnl, today), cfg.buy_amount, cfg.initial_krw)
                = "Not a BUY signal")
    /\ [][lastLog'.event \in BuyEvents
            => LET d == ResetDaily(daily_pnl, today)
                   first ==
                       IF OpenCount(positions) >= cfg.max_positions
                           THEN "Max positions reached"
                       ELSE IF krw_balance < cfg.buy_amount
                           THEN "Insufficient balance"
                       ELSE IF DailyLossHit(d, InitialOf(cfg.initial_krw))
                           THEN "Daily loss limit hit"
                       ELSE IF DrawdownHit(total_trades, total_profit,
                                           InitialOf(cfg.initial_krw))
                           THEN "Max drawdown hit"
                       ELSE IF positions[tick.ticker].status = "OPEN"
                           THEN "Already have open position"
                       ELSE ""
               IN  /\ lastLog'.reason = first
                   /\ (lastLog'.event = "buy") <=> (first = "")]_vars

\* the daily-loss and the duplicate check both fail, and the daily loss is reported
C7_Witness ==
    /\ lastLog = Log("buy_blocked", "Daily loss limit hit")
    /\ positions[tick.ticker].status = "OPEN"

\* C8: once the realized_pnl of a date is at or under max_daily_loss_pct
\* percent of the initial balance the trader was configured with, no buy
\* executes for the rest of that date.
C8_Original == lastLog.event = "buy" => lossHitDay.configured # today

\* a buy executed while the day's realized_pnl is at or under the limit taken
\* of the configured initial balance: check_buy took it of 1000000
C8_BoughtWhileHit ==
    /\ lastLog.event = "buy"
    /\ daily_pnl.date = today
    /\ DailyLossHit(daily_pnl, cfg.initial_krw)
    /\ ~DailyLossHit(daily_pnl, HardcodedInitial)

\* a buy executed on a date whose limit was hit earlier, on a trader
\* configured with the 1000000 check_buy divides by: a later winning sell
\* lifted realized_pnl over the limit again
C8_BoughtAfterLift ==
    /\ lastLog.event = "buy"
    /\ cfg.initial_krw = HardcodedInitial
    /\ lossHitDay.hardcoded = today
    /\ ~LossLimitHit(daily_pnl, today)

\* what check_buy does: a BUY signal gated while the day's realized_pnl is at
\* or under the limit taken of 1000000 is rejected and changes nothing; a SELL
\* signal for an OPEN position and a stop-loss exit still execute while that
\* limit is hit.
C8_BlockedWhileHit ==
    [][/\ (lastLog'.event \in BuyEvents
             /\ DailyLossHit(ResetDaily(daily_pnl, today), HardcodedInitial))
            => /\ lastLog'.event = "buy_blocked"
               /\ trades' = trades
               /\ UNCHANGED portfolioVars
       /\ (lastLog'.event \in {"sell", "sell_blocked"}
             /\ LossLimitHit(daily_pnl, today)
             /\ positions[tick.ticker].status = "OPEN")
            => /\ lastLog'.event = "sell"
               /\ positions'[tick.ticker].status = "CLOSED"
       /\ (lastLog'.event \in {"risk_exit", "no_exit"}
             /\ LossLimitHit(daily_pnl, today)
             /\ positions[tick'.ticker].status = "OPEN"
             /\ (tick'.price - positions[tick'.ticker].entry_price) * 100
                    <= stop_loss_pct * positions[tick'.ticker].entry_price)
            => /\ lastLog'.event = "risk_exit"
               /\ positions'[tick'.ticker].status = "CLOSED"]_vars

C8_Witness ==
    /\ lastLog = Log("buy_blocked", "Daily loss limit hit")
    /\ daily_pnl.date = today
    /\ positions[tick.ticker].status # "OPEN"

\* C9: the first check_buy or record_trade_pnl on a new date restarts the
\* daily aggregate from zero before its own effect, so the daily loss limit
\* of the day before blocks no buy.
C9_DailyReset ==
    [][/\ (lastLog'.event \in BuyEvents /\ daily_pnl.date # today)
            => /\ daily_pnl'.date = today
               /\ daily_pnl'.realized_pnl = 0
               /\ daily_pnl'.trades_today = IF lastLog'.event = "buy" THEN 1 ELSE 0
               /\ lastLog'.reason # "Daily loss limit hit"
       /\ (lastLog'.event = "sell" /\ trade_log' # trade_log /\ daily_pnl.date # today)
            => daily_pnl' = [date |-> today,
                             realized_pnl |-> trades'[Len(trades')].profit,
                             trades_today |-> 1]]_vars

\* the limit was hit the day before and a buy executed today
C9_Witness ==
    /\ lossHitDay.hardcoded >= 0
    /\ lossHitDay.hardcoded < today
    /\ lastLog.event = "buy"
    /\ daily_pnl = [date |-> today, realized_pnl |-> 0, trades_today |-> 1]

\* C10: with the earlier checks passed, a BUY is rejected for daily loss
\* exactly when realized_pnl / initial_krw * 100 <= max_daily_loss_pct, and
\* otherwise for drawdown exactly when total_trades > 0 and
\* total_profit / initial_krw * 100 <= max_drawdown_pct.
C10_RelativeToConfigured ==
    [][(/\ lastLog'.event \in BuyEvents
        /\ OpenCount(positions) < cfg.max_positions
        /\ krw_balance >= cfg.buy_amount)
        => LET d == ResetDaily(daily_pnl, today)
               daily == d.realized_pnl * 100 <= max_daily_loss_pct * cfg.initial_krw
               drawdown == /\ total_trades > 0
                           /\ total_profit * 100 <= max_drawdown_pct * cfg.initial_krw
           IN  /\ (lastLog'.reason = "Daily loss limit hit") <=> daily
               /\ ~daily => ((lastLog'.reason = "Max drawdown hit") <=> drawdown)]_vars

\* C11: a successful execute_buy of amount a at price p takes exactly a from
\* the balance, returns a BUY trade with fee a * f and quantity
\* a * (1 - f) / p, and leaves the ticker's position OPEN with that quantity
\* and entry_price = highest_price = p; nothing else changes.
C11_BuyEffects ==
    [][\A t \in Tickers, p \in Prices, a \in DirectAmounts :
        (ExecuteBuy(t, p, a) /\ krw_balance >= a)
            => LET tr == lastLog'.trade
               IN  /\ krw_balance' = krw_balance - a
                   /\ tr.side = "BUY"
                   /\ tr.total_krw = a
                   /\ tr.fee * PercentDen = a * cfg.fee_rate
                   /\ tr.quantity * p * PercentDen = a * (PercentDen - cfg.fee_rate)
                   /\ positions'[t].status = "OPEN"
                   /\ positions'[t].entry_price = p
                   /\ positions'[t].highest_price = p
                   /\ positions'[t].quantity = tr.quantity
                   /\ \A u \in Tickers \ {t} : positions'[u] = positions[u]
                   /\ UNCHANGED <<total_trades, winning_trades, total_profit>>]_vars

C11_Witness ==
    /\ lastLog.event = "execute_buy"
    /\ lastLog.trade.side = "BUY"
    /\ lastLog.trade.fee > 0
    /\ positions[lastLog.trade.ticker].status = "OPEN"
    /\ krw_balance = cfg.initial_krw - lastLog.trade.total_krw

\* C12: execute_buy of an amount above the balance returns no trade and
\* leaves balance, positions, total_trades, winning_trades and total_profit
\* as they were.
C12_InsufficientFunds ==
    [][\A t \in Tickers, p \in Prices, a \in DirectAmounts :
        (ExecuteBuy(t, p, a) /\ krw_balance < a)
            => /\ lastLog'.trade = NoTrade
               /\ UNCHANGED portfolioVars]_vars

\* a buy was refused with a position already held and money left
C12_Witness ==
    /\ lastLog.event = "execute_buy"
    /\ lastLog.trade = NoTrade
    /\ krw_balance > 0
    /\ krw_balance < 2 * cfg.buy_amount
    /\ OpenCount(positions) = 1

\* C13: a successful execute_sell of an OPEN position of quantity q at price
\* p closes it with exit_price, exit_time, profit and profit_pct set, adds
\* q * p * (1 - f) to the balance, one to total_trades, one to
\* winning_trades iff profit > 0, profit to total_profit, and returns a SELL
\* trade with the position's profit and profit_pct.
C13_SellEffects ==
    [][\A t \in Tickers, p \in Prices :
        (ExecuteSell(t, p) /\ positions[t].status = "OPEN")
            => LET tr == lastLog'.trade
                   q == positions[t].quantity
                   after == positions'[t]
               IN  /\ after.status = "CLOSED"
                   /\ after.exit_price = p
                   /\ after.exit_time = today
                   /\ after.profit_pct.num = after.profit * 100
                   /\ after.profit_pct.den * (PercentDen - cfg.fee_rate)
                        = q * positions[t].entry_price * PercentDen
                   /\ after.quantity = q
                   /\ (krw_balance' - krw_balance) * PercentDen
                        = q * p * (PercentDen - cfg.fee_rate)
                   /\ total_trades' = total_trades + 1
                   /\ winning_trades' - winning_trades = (IF after.profit > 0 THEN 1 ELSE 0)
                   /\ total_profit' = total_profit + after.profit
                   /\ tr.side = "SELL"
                   /\ tr.profit = after.profit
                   /\ tr.profit_pct = after.profit_pct
                   /\ \A u \in Tickers \ {t} : positions'[u] = positions[u]]_vars

\* a winning sell: the position is CLOSED and the win is counted
C13_Witness ==
    /\ lastLog.event = "execute_sell"
    /\ lastLog.trade.side = "SELL"
    /\ lastLog.trade.profit > 0
    /\ positions[lastLog.trade.ticker].status = "CLOSED"
    /\ positions[lastLog.trade.ticker].exit_time = today
    /\ winning_trades = 1

\* C14: execute_sell for a ticker without a position, or whose position is
\* CLOSED, returns no trade and changes nothing.
C14_SellWithoutOpen ==
    [][\A t \in Tickers, p \in Prices :
        (ExecuteSell(t, p) /\ positions[t].status # "OPEN")
            => /\ lastLog'.trade = NoTrade
               /\ UNCHANGED portfolioVars]_vars

\* buy, sell, then a sell that found nothing to sell
C14_Witness ==
    /\ lastLog.event = "execute_sell"
    /\ lastLog.trade = NoTrade
    /\ nops = 3
    /\ total_trades = 1
    /\ OpenCount(positions) = 0
    /\ \E t \in Tickers : positions[t].status = "CLOSED"

\* C15: the profit of a sell is the net proceeds minus
\* entry_price * quantity / (1 - f), which is the amount a the position was
\* bought with; after one buy and one sell the balance has changed by
\* exactly the recorded profit.
C15_ProfitBothLegs ==
    /\ []((nops = 2 /\ total_trades = 1) => krw_balance - cfg.initial_krw = total_profit)
    /\ [][\A t \in Tickers, p \in Prices :
            (ExecuteSell(t, p) /\ positions[t].status = "OPEN")
                => LET net == krw_balance' - krw_balance
                       raw == positions[t].quantity * positions[t].entry_price
                   IN  \E a \in DirectAmounts :
                           /\ raw * PercentDen = a * (PercentDen - cfg.fee_rate)
                           /\ lastLog'.trade.profit = net - a]_vars

C15_Witness ==
    /\ lastLog.event = "execute_sell"
    /\ lastLog.trade.side = "SELL"
    /\ nops = 2
    /\ total_trades = 1
    /\ total_profit > 0
    /\ krw_balance = cfg.initial_krw + total_profit

\* C16: selling at the entry price a position just bought with amount a
\* gives a profit of minus the two fees, which is negative, leaves the
\* balance under what it was before the buy and adds no winning trade.
C16_RoundTrip ==
    [][\A t \in Tickers, p \in Prices :
        (/\ ExecuteSell(t, p)
         /\ positions[t].status = "OPEN"
         /\ positions[t].entry_price = p)
            => \E a \in DirectAmounts :
                   /\ positions[t].quantity * p * PercentDen
                        = a * (PercentDen - cfg.fee_rate)
                   /\ lastLog'.trade.profit < 0
                   /\ lastLog'.trade.profit * PercentDen
                        = 0 - (a * cfg.fee_rate + lastLog'.trade.fee * PercentDen)
                   /\ krw_balance' < krw_balance + a
                   /\ winning_trades' = winning_trades]_vars

\* buy then sell at the same price, nothing else
C16_Witness ==
    /\ lastLog.event = "execute_sell"
    /\ lastLog.trade.side = "SELL"
    /\ nops = 2
    /\ lastLog.trade.price = positions[lastLog.trade.ticker].entry_price
    /\ lastLog.trade.profit < 0
    /\ krw_balance < cfg.initial_krw
    /\ winning_trades = 0
\* C17: while process_tick handles a tick whose ticker is empty or whose
\* price is zero or negative, nothing changes: balance, positions, counters,
\* daily aggregate and trade log stay as they were and no trade is returned.
C17_TickRejected ==
    [][(pc' # "idle" /\ (tick'.ticker = "" \/ tick'.price <= 0))
        => /\ UNCHANGED <<portfolioVars, daily_pnl, trade_log>>
           /\ trades' = <<>>]_vars

\* the part of C17 the code keeps: empty ticker, missing or zero price
C17_EmptyOrZeroRejected ==
    [][(pc' # "idle" /\ (tick'.ticker = "" \/ tick'.price = 0))
        => /\ UNCHANGED <<portfolioVars, daily_pnl, trade_log>>
           /\ trades' = <<>>
           /\ pc' = "ret"]_vars
\* the steps in which the Risk Manager rejected a signal
BlockedEvents == {"buy_blocked", "sell_blocked"}

\* C18: a signal the Risk Manager rejects produces no trade and leaves
\* portfolio and trade log alone; the engine goes on to the next strategy
\* of the same tick, and a BUY of that strategy that passes check_buy
\* executes and is returned.
C18_RejectionContinues ==
    [][/\ lastLog'.event \in BlockedEvents
            => /\ trades' = trades
               /\ trade_log' = trade_log
               /\ UNCHANGED portfolioVars
               /\ tick' = tick
               /\ idx' = idx + 1
               /\ pc' = (IF idx < NumStrategies THEN "loop" ELSE "ret")
       /\ (/\ lastLog.event \in BlockedEvents
           /\ pc = "loop"
           /\ lastLog'.event \in BuyEvents
           /\ check_buy("BUY", tick.ticker, positions, krw_balance, total_trades,
                        total_profit, ResetDaily(daily_pnl, today), cfg.buy_amount,
                        cfg.initial_krw) = "")
            => /\ lastLog'.event = "buy"
               /\ Len(trades') = Len(trades) + 1
               /\ trades'[Len(trades')].strategy_name = idx
               /\ positions'[tick.ticker].status = "OPEN"]_vars

\* the first strategy's SELL was rejected and the second strategy's BUY of
\* the same tick would pass check_buy
C18_Witness ==
    /\ lastLog.event = "sell_blocked"
    /\ pc = "loop"
    /\ idx = 2
    /\ trades = <<>>
    /\ check_buy("BUY", tick.ticker, positions, krw_balance, total_trades,
                 total_profit, ResetDaily(daily_pnl, today), cfg.buy_amount,
                 cfg.initial_krw) = ""

\* C19: a strategy whose evaluate raises is treated as giving no signal:
\* the loop goes on to the next strategy with everything else unchanged.
C19_RaiseIsolated ==
    [][lastLog'.event = "raise"
        => /\ pc' = (IF idx < NumStrategies THEN "loop" ELSE "ret")
           /\ idx' = idx + 1
           /\ trades' = trades]_vars

\* C20: a strategy sell that executes is appended to the trade log and its
\* profit, zero included, is recorded with the Risk Manager.
C20_SellLogged ==
    [][lastLog'.event = "sell"
        => LET trade == trades'[Len(trades')]
           IN  /\ trade.side = "SELL"
               /\ trade_log' = Append(trade_log, trade)
               /\ daily_pnl' = record_trade_pnl(daily_pnl, today, trade.profit)]_vars

\* the part of C20 the code keeps: sells whose profit is not zero
C20_NonZeroSellLogged ==
    [][(lastLog'.event = "sell" /\ trades'[Len(trades')].profit # 0)
        => LET trade == trades'[Len(trades')]
           IN  /\ trade_log' = Append(trade_log, trade)
               /\ daily_pnl' = record_trade_pnl(daily_pnl, today, trade.profit)]_vars
\* an earlier strategy of the tick being processed bought the tick's ticker
\* and that position is still OPEN
BoughtThisTick ==
    /\ pc = "loop"
    /\ positions[tick.ticker].status = "OPEN"
    /\ \E i \in 1..Len(trades) : trades[i].side = "BUY" /\ trades[i].ticker = tick.ticker

BuyRejections ==
    {"Max positions reached", "Insufficient balance", "Daily loss limit hit",
     "Max drawdown hit", "Already have open position"}

\* C21 as stated: a later BUY of the same tick for the ticker just bought is
\* rejected as a duplicate open position and the balance is not debited
\* again.
C21_Original ==
    [][(BoughtThisTick /\ lastLog'.event \in BuyEvents)
        => /\ lastLog' = Log("buy_blocked", "Already have open position")
           /\ krw_balance' = krw_balance]_vars

\* C21 as amended: a later BUY of the same tick for the ticker just bought
\* is rejected by check_buy, with the reason of its first failing check
\* (the duplicate check when max positions, balance, daily loss and drawdown
\* pass); no second trade is made and the balance is debited once.
C21_LaterBuyRejected ==
    [][(BoughtThisTick /\ lastLog'.event \in BuyEvents)
        => /\ lastLog'.event = "buy_blocked"
           /\ lastLog'.reason \in BuyRejections
           /\ (/\ OpenCount(positions) < cfg.max_positions
               /\ krw_balance >= cfg.buy_amount
               /\ ~DailyLossHit(ResetDaily(daily_pnl, today), InitialOf(cfg.initial_krw))
               /\ ~DrawdownHit(total_trades, total_profit, InitialOf(cfg.initial_krw)))
                => lastLog'.reason = "Already have open position"
           /\ trades' = trades
           /\ trade_log' = trade_log
           /\ UNCHANGED portfolioVars]_vars

\* the first strategy bought and the second strategy's BUY was refused as a
\* duplicate on the same tick
C21_Witness ==
    /\ lastLog = Log("buy_blocked", "Already have open position")
    /\ Len(trades) = 1
    /\ trades[1].side = "BUY"
    /\ trades[1].strategy_name = 1
    /\ trades[1].ticker = tick.ticker
    /\ krw_balance = cfg.initial_krw - cfg.buy_amount
\* C22: an OPEN position's highest_price is never below its entry_price and
\* never decreases, up to and including the step that closes it;
\* update_highest_price writes the price of an OPEN position only when it is
\* strictly higher and does nothing for an unknown ticker or a CLOSED
\* position.
C22_HighestPrice ==
    /\ [](\A t \in Tickers :
            /\ positions[t].status = "OPEN"
                    => positions[t].highest_price >= positions[t].entry_price
            /\ \A p \in Prices :
                    update_highest_price(positions, t, p) =
                        IF positions[t].status = "OPEN" /\ p > positions[t].highest_price
                        THEN [positions EXCEPT ![t].highest_price = p]
                        ELSE positions)
    /\ [](\A p \in Prices : update_highest_price(positions, "", p) = positions)
    /\ [][\A t \in Tickers :
            positions[t].status = "OPEN"
                => /\ positions'[t].highest_price >= positions[t].highest_price
                   /\ (positions'[t].highest_price # positions[t].highest_price
                            => /\ tick' = [ticker |-> t,
                                           price |-> positions'[t].highest_price]
                               /\ lastLog'.event \in {"no_exit", "risk_exit"})]_vars

\* a tick above the entry price raised the high of a position that stays OPEN
C22_Witness ==
    /\ lastLog.event = "no_exit"
    /\ positions[tick.ticker].status = "OPEN"
    /\ positions[tick.ticker].highest_price = tick.price
    /\ tick.price > positions[tick.ticker].entry_price
\* C23: check_sell allows exactly a SELL signal for a ticker whose position
\* is OPEN; it rejects a signal that is not a SELL first, then a ticker
\* without position, then a position that is not OPEN; a rejected SELL
\* changes nothing in the portfolio and an allowed one closes the position.
C23_CheckSell ==
    /\ [](\A t \in Tickers :
            /\ check_sell("BUY", t, positions) = "Not a SELL signal"
            /\ (check_sell("SELL", t, positions) = "") <=> (positions[t].status = "OPEN")
            /\ positions[t].status = "ABSENT"
                    => check_sell("SELL", t, positions) = "No position"
            /\ positions[t].status = "CLOSED"
                    => check_sell("SELL", t, positions) = "Position is not open")
    /\ [][lastLog'.event \in {"sell", "sell_blocked"}
            => /\ (lastLog'.event = "sell") <=> (positions[tick.ticker].status = "OPEN")
               /\ lastLog'.event = "sell_blocked"
                    => /\ UNCHANGED portfolioVars
                       /\ trades' = trades
                       /\ lastLog'.reason =
                            (IF positions[tick.ticker].status = "ABSENT"
                             THEN "No position" ELSE "Position is not open")
               /\ lastLog'.event = "sell"
                    => /\ positions'[tick.ticker].status = "CLOSED"
                       /\ Len(trades') = Len(trades) + 1]_vars

\* a SELL signal for a ticker whose position is CLOSED was rejected
C23_Witness ==
    /\ lastLog = Log("sell_blocked", "Position is not open")
    /\ positions[tick.ticker].status = "CLOSED"
\* C24: each exit check allows exactly when the position is OPEN and the
\* change is on or beyond its threshold: (price - entry) / entry * 100 <=
\* stop_loss_pct, >= take_profit_pct, and (highest - price) / highest * 100
\* >= trailing_stop_pct with price not above highest; a CLOSED position is
\* never allowed.
C24_InclusiveThresholds ==
    LET p == positions[tick.ticker]
        pr == tick.price
        open == p.status = "OPEN"
    IN  /\ lastLog.event = "check_stop_loss"
            => ((lastLog.reason = "allowed")
                    <=> (open /\ (pr - p.entry_price) * 100 <= stop_loss_pct * p.entry_price))
        /\ lastLog.event = "check_take_profit"
            => ((lastLog.reason = "allowed")
                    <=> (open /\ (pr - p.entry_price) * 100 >= take_profit_pct * p.entry_price))
        /\ lastLog.event = "check_trailing_stop"
            => ((lastLog.reason = "allowed")
                    <=> (/\ open
                         /\ pr <= p.highest_price
                         /\ (p.highest_price - pr) * 100
                                >= trailing_stop_pct * p.highest_price))

\* a drop of exactly trailing_stop_pct from the high triggered the trailing stop
C24_Witness ==
    /\ lastLog = Log("check_trailing_stop", "allowed")
    /\ positions[tick.ticker].status = "OPEN"
    /\ (positions[tick.ticker].highest_price - tick.price) * 100
            = trailing_stop_pct * positions[tick.ticker].highest_price
\* the step closes the OPEN position of the trade's ticker with the trade's figures
ClosesPosition(tr) ==
    /\ positions[tr.ticker].status = "OPEN"
    /\ positions'[tr.ticker].status = "CLOSED"
    /\ positions'[tr.ticker].exit_price = tr.price
    /\ positions'[tr.ticker].quantity = tr.quantity
    /\ positions'[tr.ticker].profit = tr.profit
    /\ positions'[tr.ticker].profit_pct = tr.profit_pct

\* C25: every SELL trade, whether returned by process_tick, returned by a
\* direct execute_sell or appended to the trade log, is made by a step in
\* which its ticker's position goes from OPEN to CLOSED with the trade's
\* price, quantity, profit and profit_pct; trades appear nowhere else.
C25_SellFollowsClose ==
    [][/\ (Len(trades') > Len(trades) /\ trades'[Len(trades')].side = "SELL")
            => /\ ClosesPosition(trades'[Len(trades')])
               /\ trades'[Len(trades')].profit \in Int
       /\ lastLog'.trade.side = "SELL" => ClosesPosition(lastLog'.trade)
       /\ Len(trades') > Len(trades)
            => /\ Len(trades') = Len(trades) + 1
               /\ \A i \in 1..Len(trades) : trades'[i] = trades[i]
       /\ trade_log' # trade_log
            => trade_log' = Append(trade_log, trades'[Len(trades')])]_vars

\* a strategy's SELL closed the position and returned its figures
C25_Witness ==
    /\ lastLog.event = "sell"
    /\ Len(trades) > 0
    /\ trades[Len(trades)].side = "SELL"
    /\ positions[tick.ticker].status = "CLOSED"
    /\ positions[tick.ticker].profit = trades[Len(trades)].profit
    /\ trade_log[Len(trade_log)] = trades[Len(trades)]
\* the steps in which _execute_signal handles a signal
SignalEvents == BuyEvents \cup {"sell", "sell_blocked"}

\* C26: a signal on which the advisor decided SKIP is not executed: no
\* trade is made and the portfolio does not change.
C26_SkipNotExecuted ==
    [][(lastLog = Log("advice", "SKIP") /\ lastLog'.event \in SignalEvents)
        => /\ trades' = trades
           /\ trade_log' = trade_log
           /\ UNCHANGED portfolioVars]_vars
StrategyEvents ==
    {"dip_buy", "momentum", "fear_greed", "volatility_breakout", "volume_surge",
     "notice_alpha"}

\* C27: whichever of the six strategies is evaluated, on whatever market
\* view, a BUY comes only with has_position false and a SELL only with
\* has_position true.
C27_EnterFlatExitHolding ==
    lastLog.event \in StrategyEvents
        => /\ lastLog.reason = "BUY" => ~tick.has_position
           /\ lastLog.reason = "SELL" => tick.has_position

\* NoticeAlpha gave no signal on a matching notice because the ticker is held
C27_Witness ==
    /\ lastLog = Log("notice_alpha", "NONE")
    /\ tick.has_position
    /\ \E i \in 1..Len(tick.notices) :
            /\ tick.ticker \in tick.notices[i].tickers
            /\ tick.notices[i].matched_keywords # <<>>

\* C28: DipBuy keeps the last timeframe_hours + 1 points of the history;
\* with fewer than 2 kept points or no current price it gives nothing;
\* holding with entry_price > 0 it gives SELL iff
\* (current / entry - 1) * 100 >= recovery_pct; not holding it gives BUY iff
\* (current / start - 1) * 100 <= drop_pct with start the oldest kept point;
\* otherwise nothing.
C28_DipBuyRule ==
    lastLog.event = "dip_buy"
        => LET par == StrategyParams.dip_buy
               h == tick.price_history
               kept == IF Len(h) > par.timeframe_hours + 1
                       THEN par.timeframe_hours + 1 ELSE Len(h)
               start == h[Len(h) - kept + 1]
               c == tick.current_price
               e == tick.entry_price
           IN  lastLog.reason =
                   IF kept < 2 \/ c = 0 THEN "NONE"
                   ELSE IF tick.has_position /\ e > 0
                       THEN (IF (c - e) * 100 >= par.recovery_pct * e
                             THEN "SELL" ELSE "NONE")
                   ELSE IF ~tick.has_position
                       THEN (IF (c - start) * 100 <= par.drop_pct * start
                             THEN "BUY" ELSE "NONE")
                   ELSE "NONE"

\* the drop from the oldest kept point is exactly drop_pct
C28_AtDropThreshold ==
    LET par == StrategyParams.dip_buy
        h == tick.price_history
        kept == IF Len(h) > par.timeframe_hours + 1 THEN par.timeframe_hours + 1 ELSE Len(h)
    IN  /\ kept >= 2
        /\ (tick.current_price - h[Len(h) - kept + 1]) * 100
                = par.drop_pct * h[Len(h) - kept + 1]

\* C28 away from the threshold: when the drop is not exactly drop_pct, DipBuy
\* gives what the rule says
C28_RuleOffThreshold == (tick.has_position \/ ~C28_AtDropThreshold) => C28_DipBuyRule

\* not holding, a drop of exactly drop_pct, and DipBuy gave no BUY
C28_ThresholdMissed ==
    /\ lastLog = Log("dip_buy", "NONE")
    /\ ~tick.has_position
    /\ tick.current_price # 0
    /\ C28_AtDropThreshold

\* a BUY on a drop beyond drop_pct from the oldest kept point, where the
\* point trimmed away would not have given it
C28_Witness ==
    /\ lastLog.event = "dip_buy"
    /\ lastLog.reason = "BUY"
    /\ Len(tick.price_history) = StrategyParams.dip_buy.timeframe_hours + 2
    /\ tick.price_history[1] = tick.current_price

\* C29: every emit awaits all the handlers of its channel in the order they
\* were registered and returns without raising, whatever the handlers do and
\* also when the channel has no handler.
C29_EmitIsolated ==
    [][\A e \in Emitters :
          (~Ended(bus.emits[e]) /\ Ended(bus'.emits[e]))
              => /\ bus'.emits[e].result = "returned"
                 /\ bus'.emits[e].called
                        = [i \in 1..Len(bus.handlers[bus'.emits[e].channel]) |-> i]]_vars

\* C29, the part the code keeps: once the publish went through, handlers
\* raising an Exception stop neither the later handlers nor emit.
C29_AfterPublish ==
    [][\A e \in Emitters :
          (/\ bus.emits[e].pc = "handler"
           /\ Ended(bus'.emits[e])
           /\ \A i \in 1..Len(bus.handlers[bus.emits[e].channel]) :
                  bus.handlers[bus.emits[e].channel][i] # "raises BaseException")
              => /\ bus'.emits[e].result = "returned"
                 /\ bus'.emits[e].called
                        = [i \in 1..Len(bus.handlers[bus.emits[e].channel]) |-> i]]_vars

\* a handler registered while emit awaited an earlier handler is awaited by
\* that emit as well
C29_LateHandlerCalled ==
    \E e \in Emitters :
        /\ bus.emits[e].pc = "handler"
        /\ bus.emits[e].i = 1
        /\ lastLog = Log("on", bus.emits[e].channel)
        /\ Len(bus.handlers[bus.emits[e].channel]) = 2

\* C30: with two process_tick calls interleaved at the strategy evaluations
\* the balance is never negative, at most max_positions positions are OPEN,
\* and a buy that executes never finds its ticker OPEN.
C30_InterleavedSafety ==
    /\ [](krw_balance >= 0 /\ OpenCount(positions) <= cfg.max_positions)
    /\ [][lastLog'.event = "buy" => positions[tick.ticker].status # "OPEN"]_vars

\* the running call is refused a BUY as duplicate because the other call,
\* suspended at its await, bought the ticker after this one had started
C30_Reached ==
    /\ lastLog = Log("buy_blocked", "Already have open position")
    /\ other.pc = "loop"
    /\ other.tick.ticker = tick.ticker
    /\ Len(other.trades) = 1
    /\ other.trades[1].side = "BUY"

\* C31: every trade process_tick puts in the list it returns is appended to
\* trade_log in the same step, once, and nothing else changes trade_log, so
\* len(trade_log) counts the trades returned so far.
C31_ReturnedTradesLogged ==
    [][IF Len(trades') = Len(trades) + 1
       THEN trade_log' = Append(trade_log, trades'[Len(trades')])
       ELSE trade_log' = trade_log]_vars

\* C32: cash conservation over process_tick calls: the balance is the
\* initial balance plus total_profit minus buy_amount for every OPEN
\* position; with no OPEN position it is initial balance plus total_profit.
C32_CashConservation ==
    krw_balance = cfg.initial_krw + total_profit - OpenCount(positions) * cfg.buy_amount

\* one position sold at a loss or gain and another one bought since
C32_Witness ==
    /\ total_trades >= 1
    /\ total_profit # 0
    /\ OpenCount(positions) = 1
    /\ \E t \in Tickers : positions[t].status = "CLOSED"
    /\ krw_balance = cfg.initial_krw + total_profit - cfg.buy_amount

\* C33: once total_trades > 0, no position is OPEN and total_profit is at or
\* below max_drawdown_pct percent of the initial balance the trader was
\* configured with, no step of process_tick makes a trade or changes the
\* portfolio.
C33_DrawdownLockOut ==
    [][(/\ total_trades > 0
        /\ OpenCount(positions) = 0
        /\ total_profit * 100 <= max_drawdown_pct * cfg.initial_krw)
        => /\ UNCHANGED portfolioVars
           /\ Len(trades') <= Len(trades)]_vars

\* C33 with the percentage taken of the 1000000 check_buy divides by
C33_LockOutOnHardcoded ==
    [][(/\ total_trades > 0
        /\ OpenCount(positions) = 0
        /\ total_profit * 100 <= max_drawdown_pct * HardcodedInitial)
        => /\ UNCHANGED portfolioVars
           /\ Len(trades') <= Len(trades)]_vars

\* a BUY refused for drawdown with nothing OPEN
C33_Locked ==
    /\ lastLog.event = "buy_blocked"
    /\ lastLog.reason = "Max drawdown hit"
    /\ OpenCount(positions) = 0
    /\ total_profit * 100 <= max_drawdown_pct * HardcodedInitial

\* C34: the market_data a strategy is evaluated with shows the portfolio as
\* it is when that evaluation is called: has_position says whether the
\* tick's ticker is OPEN and entry_price is that position's entry price.  If
\* an earlier strategy of the same tick bought, it has has_position true and
\* entry_price equal to the tick price; if an earlier one sold, has_position
\* is false.
C34_ViewIsCurrent ==
    pc = "loop"
        => /\ market_data.current_price = tick.price
           /\ market_data.has_position = (positions[tick.ticker].status = "OPEN")
           /\ market_data.has_position
                  => market_data.entry_price = positions[tick.ticker].entry_price
           /\ trades # <<>>
                  => /\ trades[Len(trades)].side = "BUY"
                        => /\ market_data.has_position
                           /\ market_data.entry_price = tick.price
                     /\ trades[Len(trades)].side = "SELL"
                        => /\ ~market_data.has_position
                           /\ market_data.entry_price = 0

\* the second strategy is about to be evaluated after the first one bought
C34_Witness ==
    /\ pc = "loop"
    /\ idx = 2
    /\ Len(trades) = 1
    /\ trades[1].side = "BUY"
    /\ market_data.has_position
    /\ market_data.entry_price = tick.price


\* C35: when process_tick has run the exit checks on an OPEN position, that
\* position's highest_price is at least the tick price, so the trailing-stop
\* check did not see a price above the high; and a tick above the previous
\* high never ends in a trailing-stop exit.
C35_HighRaisedBeforeExits ==
    [][(/\ lastLog'.event \in {"risk_exit", "no_exit"}
        /\ positions[tick'.ticker].status = "OPEN")
        => /\ positions'[tick'.ticker].highest_price >= tick'.price
           /\ tick'.price > positions[tick'.ticker].highest_price
                  => lastLog'.reason # "Trailing stop"]_vars

\* a tick above the previous high of an OPEN position that caused no exit
C35_Witness ==
    /\ lastLog.event = "no_exit"
    /\ pc = "loop"
    /\ positions[tick.ticker].status = "OPEN"
    /\ positions[tick.ticker].highest_price = tick.price
    /\ tick.price > positions[tick.ticker].entry_price

\* the position of t is closed by this step: a successful sell of t
SoldInStep(t) == positions[t].status = "OPEN" /\ positions'[t].status = "CLOSED"

\* C36: 0 <= winning_trades <= total_trades always; a step that sells a
\* position adds one to total_trades, the sell's profit to total_profit and
\* one to winning_trades iff that profit is positive; every other step,
\* buys included, leaves the three counters as they are.
C36_CounterConsistency ==
    /\ [](0 <= winning_trades /\ winning_trades <= total_trades)
    /\ [](total_trades = 0 => winning_trades = 0 /\ total_profit = 0)
    /\ [][/\ \A t \in Tickers :
                SoldInStep(t)
                    => /\ total_trades' = total_trades + 1
                       /\ total_profit' = total_profit + positions'[t].profit
                       /\ winning_trades' - winning_trades
                              = IF positions'[t].profit > 0 THEN 1 ELSE 0
          /\ (\A t \in Tickers : ~SoldInStep(t))
                => UNCHANGED <<total_trades, winning_trades, total_profit>>]_vars

\* a winning and a losing sell, on two tickers
C36_Witness ==
    /\ total_trades = 2
    /\ winning_trades = 1
    /\ \E t, u \in Tickers :
            /\ t # u
            /\ positions[t].status = "CLOSED" /\ positions[t].profit > 0
            /\ positions[u].status = "CLOSED" /\ positions[u].profit < 0
            /\ total_profit = positions[t].profit + positions[u].profit

\* C37: a step of process_tick for ticker T leaves the position of every
\* other ticker as it is and leaves the configuration alone, and no ticker
\* that has a position ever loses its entry in the positions map.
C37_OtherTickersUntouched ==
    [][/\ \A t \in Tickers : t # tick'.ticker => positions'[t] = positions[t]
       /\ \A t \in Tickers : positions[t].status # "ABSENT"
                                  => positions'[t].status # "ABSENT"
       /\ cfg' = cfg]_vars

\* a buy for one ticker at a price above the high of another ticker's OPEN
\* position, which kept its high
C37_Witness ==
    /\ lastLog.event = "buy"
    /\ positions[tick.ticker].status = "OPEN"
    /\ \E t \in Tickers :
            /\ t # tick.ticker
            /\ positions[t].status = "OPEN"
            /\ positions[t].highest_price < tick.price

\* C38: no evaluate raises, and every Signal returned has a strength in
\* [0, 1], whatever the market view.
C38_NoRaiseStrengthInRange ==
    lastLog.event \in StrategyEvents
        => /\ lastLog.reason # "RAISE"
           /\ lastLog.trade # NoTrade
                  => /\ lastLog.trade.strength.den > 0
                     /\ 0 <= lastLog.trade.strength.num
                     /\ lastLog.trade.strength.num <= lastLog.trade.strength.den
                     /\ lastLog.trade.strength.num = 0 => lastLog.trade.strength.ulps >= 0
                     /\ lastLog.trade.strength.num = lastLog.trade.strength.den
                            => lastLog.trade.strength.ulps <= 0

\* C38, the part about the strength alone
C38_StrengthInRange ==
    (lastLog.event \in StrategyEvents /\ lastLog.trade # NoTrade)
        => /\ lastLog.trade.strength.den > 0
           /\ 0 <= lastLog.trade.strength.num
           /\ lastLog.trade.strength.num <= lastLog.trade.strength.den
           /\ lastLog.trade.strength.num = 0 => lastLog.trade.strength.ulps >= 0
           /\ lastLog.trade.strength.num = lastLog.trade.strength.den
                  => lastLog.trade.strength.ulps <= 0

\* DipBuy returned a signal whose strength was clipped to 1
C38_Clipped ==
    /\ lastLog.event = "dip_buy"
    /\ lastLog.trade # NoTrade
    /\ lastLog.trade.strength = [num |-> 1, den |-> 1, ulps |-> 0]

\* C39: since the key last expired at most max_count calls of
\* check_rate_limit have returned True, also when the calls of several
\* callers interleave between their read and their increment.
C39_AtMostMaxCount == rate.allowed <= rate.max_count

\* a call refused because max_count calls were allowed before it
C39_Refused ==
    /\ lastLog = Log("check_rate_limit", "False")
    /\ rate.allowed = rate.max_count

\* C40: once stop() has been called on a started UpbitWebSocket, start()
\* eventually returns, no connection is opened and on_tick is not called
\* any more; and start() ends only after stop(), so that a closed
\* connection or an error leads to the sleep and a new attempt.
C40_StopEndsStart ==
    /\ ws.stopped ~> (ws.pc = "returned")
    /\ [][ws.stopped => /\ (ws'.socket = "open" => ws.socket = "open")
                        /\ ws'.ticks = ws.ticks]_vars
    /\ [](ws.pc \in {"returned", "raised"} => ws.stopped)
    /\ (ws.pc = "sleeping" /\ ~ws.stopped) ~> (ws.pc = "connecting" \/ ws.stopped)

\* after stop() start() eventually returns
C40_StopReturns == ws.stopped ~> (ws.pc = "returned")

\* stop() called while a connection is open or start() sleeps: start() ends
C40_StopOutsideConnectEnds ==
    (ws.stop_pc = "closing" \/ (ws.stopped /\ ws.pc = "sleeping"))
        ~> (ws.pc \in {"returned", "raised"})

\* after stop() on_tick is not called any more
C40_NoTickAfterStop == [][ws.stopped => ws'.ticks = ws.ticks]_vars

\* start() returns only after stop(), and an unstopped sleep ends in a new attempt
C40_ReconnectsUntilStopped ==
    /\ [](ws.pc = "returned" => ws.stopped)
    /\ (ws.pc = "sleeping" /\ ~ws.stopped) ~> (ws.pc = "connecting" \/ ws.stopped)

\* start() ends only after stop()
C40_EndsOnlyStopped == ws.pc \in {"returned", "raised"} => ws.stopped

\* after stop() no connection is opened
C40_NoConnectionAfterStop ==
    [][ws.stopped => (ws'.socket = "open" => ws.socket = "open")]_vars

\* stop() came while start() awaited websockets.connect: the connection is
\* open, nobody will close it and start() waits for a message
C40_OpenAfterStop ==
    ws.stop_pc = "ended" /\ ws.pc = "listening" /\ ws.socket = "open"

\* on_tick raised a BaseException: start() has ended without stop()
C40_RaisedUnstopped == ws.pc = "raised" /\ ~ws.stopped /\ ws.running
====
